---- MODULE Spec2Model ----
(***************************************************************************)
(* The agent execution engine of OpenManus: the lifecycle of BaseAgent     *)
(* (run, state_context, is_stuck), the think/act step of ReActAgent and    *)
(* the model query, tool dispatch and special-tool handling of             *)
(* ToolCallAgent, over the registry ToolCollection.                        *)
(*                                                                         *)
(* The model client and the tools are external: what a query or a tool     *)
(* invocation yields is drawn from the bounded sets below.  Every await of *)
(* the code is the end of an action.                                       *)
(*                                                                         *)
(* Spec is one agent whose run is called directly.  FlowSpec is a          *)
(* PlanningFlow executing the plan held in its plan store: it resolves the *)
(* current step, selects an executor among its agents and runs it.  The    *)
(* agent variables are then the fields of the executor in use; the fields  *)
(* of the flow's other agents are kept in parked.                          *)
(*                                                                         *)
(* BrowserSpec and BashSpec are one instance of BrowserUseTool and of Bash *)
(* called by several agents that run concurrently on one event loop: a     *)
(* call runs without interruption from one await to the next.              *)
(*                                                                         *)
(* ManusSpec, SWESpec and PlanAgentSpec are one agent of the subclasses    *)
(* Manus, SWEAgent and PlanningAgent: the engine's actions, with the       *)
(* methods the subclass overrides in place of the engine's.  ResultSpec    *)
(* combines two ToolResults.                                               *)
(***************************************************************************)
EXTENDS Integers, Sequences, FiniteSets, TLC

\* ------------------------------------------------------------------ bounds
\* largest step budget (max_steps) an agent is configured with
MaxSteps == 2
\* tool calls carried by one model response
MaxToolCalls == 2
\* departures from the plain course in one behaviour.  The plain course is
\* the default agent (IDLE, policy auto, terminate the one special tool)
\* run once with a request, every response carrying text and asking for
\* one well-formed call of the ordinary tool, every tool returning
\* output.  Each further call of run on the same agent is a departure.
MaxOdd == 2
\* steps of the plan a flow executes
MaxPlanSteps == 2
\* agents that run concurrently and share one tool instance
MaxAgents == 3
\* calls the concurrent agents make of a shared tool, in all
MaxCalls == 4

\* The longest prompt template, in tokens, other than the SWE agent's own.
MaxTemplate == 3

\* ------------------------------------------------------------- vocabulary
AgentState == {"IDLE", "RUNNING", "FINISHED", "ERROR"}

ToolChoice == {"none", "auto", "required"}

\* The registry of the modelled agent: Terminate and one ordinary tool.
ToolNames == {"terminate", "bash"}

\* special_tool_names is a field of the agent: the default, and a
\* configuration that also names the ordinary tool.
SpecialToolConfigs == {{"terminate"}, {"terminate", "bash"}}

NEXT_STEP_PROMPT == "next_step_prompt"

STUCK_PROMPT == "stuck_prompt"

TOOL_CALL_REQUIRED == "tool_call_required"

duplicate_threshold == 2

NO_ACTION == "thinking_complete_no_action"

NO_CONTENT == "no_content_or_command"

NO_STEPS == "no_steps_executed"

MAX_STEPS_REACHED == "terminated_max_steps_reached"

TOKEN_LIMIT_TEXT == "token_limit_reached"

INTERPRET_ERROR_TEXT == "error_while_processing"

PlanStepStatus == {"not_started", "in_progress", "completed", "blocked"}

\* PlanStepStatus.get_active_statuses
ActiveStatusesNotStartedOnly == {"not_started"}

ActiveStatuses == {"not_started", "in_progress"}

\* The keys agents are registered under in a flow, and the keys a flow may
\* be configured with (one of them names no agent).
FlowKeys == {"default", "search"}

ConfiguredKeys == {"search", "other"}

\* Step texts of a plan: without a bracketed token, with one at the start
\* and with one further on.
StepTexts == {"do", "[SEARCH] do", "do [SEARCH]"}

STEP_PROMPT == "step_prompt"

STEP_FAILED == "step_execution_failed"

FLOW_FAILED == "execution_failed"

PLAN_COMPLETED == "plan_completed"

CREATE_FAILED == "plan_creation_failed"

\* _create_initial_plan: the steps of the default plan.
DEFAULT_STEPS == <<"analyze_request", "execute_task", "verify_result">>

\* "no current step" (None)
NoStep == -1

VARIABLES
    state,              \* BaseAgent.state
    current_step,       \* BaseAgent.current_step
    max_steps,          \* BaseAgent.max_steps
    memory,             \* BaseAgent.memory.messages
    next_step_prompt,   \* BaseAgent.next_step_prompt
    tool_choices,       \* ToolCallAgent.tool_choices
    special_tool_names, \* ToolCallAgent.special_tool_names
    tool_calls,         \* ToolCallAgent.tool_calls
    pc,                 \* where the run in flight stands ("idle": none in flight)
    previous_state,     \* state_context: previous_state
    results,            \* run: results
    pending,            \* act: index of the command the for loop is at
    act_results,        \* act: results
    runs,               \* calls of run so far
    steps_run,          \* steps the latest run has executed
    cleanups,           \* SANDBOX_CLIENT.cleanup() calls of the latest run
    outcome,            \* how the latest call of run ended
    returned,           \* the lines the latest run returned
    last_query,         \* what the latest model query of the run yielded
    finished_at,        \* the run's step in which FINISHED was set (0: never)
    raised_by,          \* the operation whose failure left the latest run
    dispatched,         \* tool invocations the latest run has made
    last_dispatch,      \* what the latest execute_tool call of the run met
    odd,                \* departures from the plain course so far
    agents,             \* BaseFlow.agents: its keys, in insertion order
    executor_keys,      \* PlanningFlow.executor_keys
    primary_agent_key,  \* BaseFlow.primary_agent_key
    plan_in_store,      \* active_plan_id in planning_tool.plans
    steps,              \* the plan's steps
    step_statuses,      \* the plan's step_statuses
    current_step_index, \* PlanningFlow.current_step_index
    step_type,          \* execute: step_info's type ("": none)
    executor,           \* execute: the key of the executor of the step
    parked,             \* the fields of the flow's agents not in use
    fpc,                \* where execute stands ("off": no flow)
    flow_result,        \* execute: result, one entry per piece
    last_run_step,      \* the plan step the latest executor run was for
    signalled,          \* a special tool set FINISHED in a plan step's run
    planned,            \* what _create_initial_plan met ("": not called)
    lock,               \* BrowserUseTool.lock: the agent holding it (0: free)
    browser,            \* BrowserUseTool.browser is not None
    context,            \* BrowserUseTool.context is not None
    bpc,                \* where each agent's call of the browser tool stands
    browser_inits,      \* browsers created since the browser was last closed
    session,            \* Bash._session: "none", "created" or "started"
    stdin,              \* commands written to the shell and not yet run
    stdout,             \* the shell's output buffer
    timed_out,          \* _BashSession._timed_out
    spc,                \* where each agent's call of the bash tool stands
    got,                \* what each agent's latest bash call yielded
    calls_made,         \* calls of the shared tool so far
    step_execution_tracker, \* PlanningAgent.step_execution_tracker
    plan_header,        \* the header line of the planning tool's plan text
    working_dir,        \* SWEAgent.working_dir
    template,           \* the next_step_prompt the SWE agent was built with
    lhs,                \* ToolResult.__add__: self
    rhs,                \* ToolResult.__add__: other
    combined            \* ToolResult.__add__: what it yielded

flowVars == <<agents, executor_keys, primary_agent_key, plan_in_store, steps,
              step_statuses, current_step_index, step_type, executor, parked,
              fpc, flow_result, last_run_step, signalled, planned>>

toolVars == <<lock, browser, context, bpc, browser_inits, session, stdin,
              stdout, timed_out, spc, got, calls_made>>

kindVars == <<step_execution_tracker, plan_header, working_dir, template,
              lhs, rhs, combined>>

vars == <<state, current_step, max_steps, memory,
          next_step_prompt, tool_choices, special_tool_names, tool_calls, pc,
          previous_state, results, pending, act_results, runs, steps_run,
          cleanups, outcome, returned, last_query, finished_at, raised_by,
          dispatched, last_dispatch, odd, flowVars, toolVars, kindVars>>

\* --------------------------------------------------------------- messages
UserMessage(c) ==
    [role |-> "user", content |-> c, tool_calls |-> <<>>, tool_call_id |-> 0,
     name |-> ""]

AssistantMessage(c) ==
    [role |-> "assistant", content |-> c, tool_calls |-> <<>>,
     tool_call_id |-> 0, name |-> ""]

FromToolCalls(c, calls) ==
    [role |-> "assistant", content |-> c, tool_calls |-> calls,
     tool_call_id |-> 0, name |-> ""]

ToolMessage(c, id, n) ==
    [role |-> "tool", content |-> c, tool_calls |-> <<>>, tool_call_id |-> id,
     name |-> n]

\* Memory.add_message: the message is appended to the sequence.
AddMessage(mem, m) == Append(mem, m)

\* ----------------------------------------------------------------- inputs
\* The shapes of one requested call: no function name, a name the registry
\* does not hold, and each registered tool with an argument payload that is
\* or is not JSON.
CallShapes ==
    {[name |-> "", arguments |-> "{}"], [name |-> "nosuch", arguments |-> "{}"]}
    \cup {[name |-> n, arguments |-> a] : n \in ToolNames, a \in {"{}", "{"}}

CallSeqs ==
    UNION {{[i \in 1..n |-> [id |-> i, name |-> k[i].name,
                              arguments |-> k[i].arguments]] :
              k \in [1..n -> CallShapes]} : n \in 0..MaxToolCalls}

Contents == {"", "a"}

\* What llm.ask_tool yields: a response, or one of the failures think
\* tells apart.
Responses ==
    {[kind |-> "response", content |-> c, tool_calls |-> tc] :
       c \in Contents, tc \in CallSeqs}

QueryFailures ==
    {[kind |-> k, content |-> "", tool_calls |-> <<>>] :
       k \in {"value_error", "token_limit", "other_error"}}

\* A response during whose interpretation, inside think's try block, a
\* failure is raised before the assistant message is recorded.
InterpretFailures ==
    {[kind |-> "interpret_error", content |-> "a",
      tool_calls |-> <<[id |-> 1, name |-> "bash", arguments |-> "{}"]>>]}

LLMOutcomes == Responses \cup QueryFailures \cup InterpretFailures

\* What invoking a registered tool yields: a result with output, an empty
\* result, a ToolError, or another exception (also a rejected argument
\* object).  Terminate.execute returns its text or rejects its arguments.
ToolOutcomes(n) ==
    IF n = "terminate" THEN {"output", "exception"}
    ELSE {"output", "empty", "tool_error", "exception"}

Requests == {"", "request"}

\* How far an input departs from the plain course.
CallCost(c) == IF c.name = "bash" /\ c.arguments = "{}" THEN 0 ELSE 1

RECURSIVE CallsCost(_)
CallsCost(tc) ==
    IF tc = <<>> THEN 0 ELSE CallCost(Head(tc)) + CallsCost(Tail(tc))

QueryCost(q) ==
    IF q.kind # "response" THEN 1
    ELSE (IF q.content # "a" THEN 1 ELSE 0)
         + (IF q.tool_calls = <<>> THEN 1
            ELSE CallsCost(q.tool_calls) + (Len(q.tool_calls) - 1))

OutcomeCost(o) == IF o = "output" THEN 0 ELSE 1

RequestCost(r) == IF r = "request" THEN 0 ELSE 1

RunCost(n) == IF n = 0 THEN 0 ELSE 1

ConfigCost(st, policy, special) ==
    (IF st # "IDLE" THEN 1 ELSE 0) + (IF policy # "auto" THEN 1 ELSE 0)
    + (IF special # {"terminate"} THEN 1 ELSE 0)

\* The query outcomes that depart from the plain course by at most n.
OutcomesWithin ==
    [n \in 0..MaxOdd |-> {q \in LLMOutcomes : QueryCost(q) <= n}]

\* ------------------------------------------------------------ BaseAgent
\* (a test that rejects only a run in progress)
InvalidStateRunningOnly(s) == s = "RUNNING"

\* run: the test that rejects the call.
InvalidState(s) == s # "IDLE"

\* is_stuck
IsStuck(mem) ==
    IF Len(mem) < 2 THEN FALSE
    ELSE LET last_message == mem[Len(mem)]
             duplicate_count ==
                 Cardinality({i \in 1..(Len(mem) - 1) :
                                /\ mem[i].role = "assistant"
                                /\ mem[i].content = last_message.content})
         IN  IF last_message.content = "" THEN FALSE
             ELSE duplicate_count >= duplicate_threshold

\* handle_stuck_state
HandleStuckState(prompt) == STUCK_PROMPT \o "\n" \o prompt

\* (a loop condition that forgets the step budget)
LoopContinuesNoBudget(cs, ms, st) == st # "FINISHED"

\* run: the loop condition.
LoopContinues(cs, ms, st) == cs < ms /\ st # "FINISHED"

\* run: the test after the loop.
BudgetExhausted(cs, ms) == cs >= ms

\* (a finally clause that restores nothing)
RestoredStateKept(prev, st) == st

\* state_context: what the finally clause leaves in state.
RestoredState(prev, st) == prev

\* (an except clause that does not mark the failure)
FailedStateKept(st) == st

\* state_context: what the except clause leaves in state.
FailedState(st) == "ERROR"

\* run: the value returned.
ReturnValue(res) == IF res # <<>> THEN res ELSE <<[step |-> 0, text |-> <<NO_STEPS>>]>>

\* --------------------------------------------------------- ToolCollection
\* execute: "output" and "empty" are the tool's result, "failure" is the
\* ToolFailure made of a ToolError, "raise" is any other exception.
CollectionExecute(n, o) ==
    IF n \notin ToolNames THEN "failure"
    ELSE IF o = "tool_error" THEN "failure"
    ELSE IF o = "exception" THEN "raise"
    ELSE o

\* ---------------------------------------------------------- ToolCallAgent
Lower(s) == IF s = "Terminate" THEN "terminate" ELSE IF s = "Bash" THEN "bash" ELSE s

\* _is_special_tool
IsSpecialTool(n, special) == Lower(n) \in {Lower(x) : x \in special}

\* _should_finish_execution
ShouldFinishExecution(n, r) == TRUE

\* (a special-tool hook that never finishes)
HandleSpecialToolNoFinish(n, r, st, special) == st

\* _handle_special_tool: the state it leaves.
HandleSpecialTool(n, r, st, special) ==
    IF ~IsSpecialTool(n, special) THEN st
    ELSE IF ShouldFinishExecution(n, r) THEN "FINISHED"
    ELSE st

\* json.loads(arguments or "{}") succeeds.
JsonLoads(a) == (IF a = "" THEN "{}" ELSE a) = "{}"

\* execute_tool: the text observed for a result.
Observation(r) ==
    IF r = "empty" THEN "completed_no_output"
    ELSE IF r = "failure" THEN "observed_output_error"
    ELSE "observed_output"

\* execute_tool, for the command and what invoking its tool yields:
\* the text returned (raised: whether it raises instead), the state left
\* and whether the tool was invoked.
ExecuteTool(command, o, st, special) ==
    IF command.name = "" THEN
        [text |-> "error_invalid_command", raised |-> FALSE, state |-> st,
         invoked |-> FALSE]
    ELSE IF command.name \notin ToolNames THEN
        [text |-> "error_unknown_tool", raised |-> FALSE, state |-> st,
         invoked |-> FALSE]
    ELSE IF ~JsonLoads(command.arguments) THEN
        [text |-> "error_invalid_json", raised |-> FALSE, state |-> st,
         invoked |-> FALSE]
    ELSE LET r == CollectionExecute(command.name, o)
         IN  IF r = "raise" THEN
                 [text |-> "error_tool_problem", raised |-> FALSE,
                  state |-> st, invoked |-> TRUE]
             ELSE
                 [text |-> Observation(r), raised |-> FALSE,
                  state |-> HandleSpecialTool(command.name, r, st, special),
                  invoked |-> TRUE]

\* What a call of execute_tool meets: a command without a function name, a
\* name the registry does not hold, a payload that is not JSON, or what
\* invoking the tool yields.
DispatchCase(command, o) ==
    IF command.name = "" THEN "invalid_command"
    ELSE IF command.name \notin ToolNames THEN "unknown_tool"
    ELSE IF ~JsonLoads(command.arguments) THEN "invalid_json"
    ELSE o

\* (a handler that records the limit but leaves the run going)
OnTokenLimitNoFinish(mem1, st, calls) ==
    [memory |-> AddMessage(mem1, AssistantMessage(TOKEN_LIMIT_TEXT)),
     state |-> st, tool_calls |-> calls, ret |-> "false"]

\* think: the handler of a wrapped TokenLimitExceeded.
OnTokenLimit(mem1, st, calls) ==
    [memory |-> AddMessage(mem1, AssistantMessage(TOKEN_LIMIT_TEXT)),
     state |-> "FINISHED", tool_calls |-> calls, ret |-> "false"]

\* (a handler that lets the failure leave think)
OnInterpretErrorPropagates(mem1, st, calls) ==
    [memory |-> mem1, state |-> st, tool_calls |-> calls, ret |-> "raise"]

\* think: the handler of a failure met while the response is interpreted.
OnInterpretError(mem1, st, calls) ==
    [memory |-> AddMessage(mem1, AssistantMessage(INTERPRET_ERROR_TEXT)),
     state |-> st, tool_calls |-> calls, ret |-> "false"]

\* (a decision that acts on tool calls only)
ShouldActOnCallsOnly(policy, content, calls) == calls # <<>>

\* think: the value returned once the assistant message is recorded.
ShouldAct(policy, content, calls) ==
    IF policy = "required" /\ calls = <<>> THEN TRUE
    ELSE IF policy = "auto" /\ calls = <<>> THEN content # ""
    ELSE calls # <<>>

\* (a prompt that takes the place of the conversation so far)
WithPromptReplacing(mem, prompt) ==
    IF prompt # "" THEN <<UserMessage(prompt)>> ELSE mem

\* think: the next-step prompt appended before the query.
WithPrompt(mem, prompt) ==
    IF prompt # "" THEN Append(mem, UserMessage(prompt)) ELSE mem

\* think: ret is "raise" when the query's failure propagates, else the
\* value returned.
Think(q, mem, prompt, st, calls, policy) ==
    LET mem1 == WithPrompt(mem, prompt)
    IN
    IF q.kind \in {"value_error", "other_error"} THEN
        [memory |-> mem1, state |-> st, tool_calls |-> calls, ret |-> "raise"]
    ELSE IF q.kind = "token_limit" THEN
        OnTokenLimit(mem1, st, calls)
    ELSE IF q.kind = "interpret_error" THEN
        OnInterpretError(mem1, st, q.tool_calls)
    ELSE IF policy = "none" THEN
        IF q.content # "" THEN
            [memory |-> AddMessage(mem1, AssistantMessage(q.content)),
             state |-> st, tool_calls |-> q.tool_calls, ret |-> "true"]
        ELSE
            [memory |-> mem1, state |-> st, tool_calls |-> q.tool_calls,
             ret |-> "false"]
    ELSE
        LET assistant_msg ==
                IF q.tool_calls # <<>> THEN FromToolCalls(q.content, q.tool_calls)
                ELSE AssistantMessage(q.content)
            should_act == ShouldAct(policy, q.content, q.tool_calls)
        IN  [memory |-> AddMessage(mem1, assistant_msg), state |-> st,
             tool_calls |-> q.tool_calls,
             ret |-> IF should_act THEN "true" ELSE "false"]

\* (a loop that a special tool's FINISHED breaks)
ActLoopStopsWhenFinished(p, calls, st) == p < Len(calls) /\ st # "FINISHED"

\* act: the for loop has a further command after the p-th, whatever state
\* the p-th left.
ActLoopContinues(p, calls, st) == p < Len(calls)

\* (a loop that takes the commands last to first)
CommandReversed(calls, p) == calls[Len(calls) + 1 - p]

\* act: the command the for loop is at.
Command(calls, p) == calls[p]

\* (an act that never demands a tool call)
ActWithoutCallsLenient(mem, policy) ==
    IF mem # <<>> /\ mem[Len(mem)].content # "" THEN mem[Len(mem)].content
    ELSE NO_CONTENT

\* act with no pending tool call: "raise" or the text returned.
ActWithoutCalls(mem, policy) ==
    IF policy = "required" THEN "raise"
    ELSE IF mem # <<>> /\ mem[Len(mem)].content # "" THEN mem[Len(mem)].content
    ELSE NO_CONTENT

\* ---------------------------------------------------------------- actions
config == <<max_steps, tool_choices, special_tool_names>>

configOdd == <<config, odd, last_dispatch>>

\* The persistent fields of an agent as constructed, in state st.
AgentFields(st) ==
    [state |-> st, current_step |-> 0, memory |-> <<>>,
     next_step_prompt |-> NEXT_STEP_PROMPT, tool_calls |-> <<>>]

\* No flow: the agent is used on its own.
NoFlow ==
    /\ agents = <<"default">>
    /\ executor_keys = <<"default">>
    /\ primary_agent_key = "default"
    /\ plan_in_store = FALSE
    /\ steps = <<>>
    /\ step_statuses = <<>>
    /\ current_step_index = NoStep
    /\ step_type = ""
    /\ executor = "none"
    /\ parked = [k \in FlowKeys |-> AgentFields("IDLE")]
    /\ fpc = "off"
    /\ flow_result = <<>>
    /\ last_run_step = NoStep
    /\ signalled = FALSE
    /\ planned = ""

\* The agents that share a tool instance.
Agents == 1..MaxAgents

\* No shared tool is in use.
NoTools ==
    /\ lock = 0
    /\ browser = FALSE
    /\ context = FALSE
    /\ bpc = [p \in Agents |-> "idle"]
    /\ browser_inits = 0
    /\ session = "none"
    /\ stdin = <<>>
    /\ stdout = <<>>
    /\ timed_out = FALSE
    /\ spc = [p \in Agents |-> "idle"]
    /\ got = [p \in Agents |-> [kind |-> "none", output |-> <<>>]]
    /\ calls_made = 0

\* The fields of the agent subclasses and the operands of a combination
\* are not in use.
NoKinds ==
    /\ step_execution_tracker = <<>>
    /\ plan_header = ""
    /\ working_dir = ""
    /\ template = <<>>
    /\ lhs = <<>>
    /\ rhs = <<>>
    /\ combined = <<>>

\* An agent as constructed, with its next-step prompt.
AgentBuilt(prompt) ==
    /\ state \in AgentState
    /\ current_step = 0
    /\ max_steps \in 0..MaxSteps
    /\ memory = <<>>
    /\ next_step_prompt = prompt
    /\ tool_choices \in ToolChoice
    /\ special_tool_names \in SpecialToolConfigs
    /\ tool_calls = <<>>
    /\ pc = "idle"
    /\ previous_state = "IDLE"
    /\ results = <<>>
    /\ pending = 0
    /\ act_results = <<>>
    /\ runs = 0
    /\ steps_run = 0
    /\ cleanups = 0
    /\ outcome = "none"
    /\ returned = <<>>
    /\ last_query = "none"
    /\ finished_at = 0
    /\ raised_by = "none"
    /\ dispatched = 0
    /\ last_dispatch = "none"

AgentInit == AgentBuilt(NEXT_STEP_PROMPT)

Init ==
    /\ AgentInit
    /\ NoFlow
    /\ NoTools
    /\ NoKinds
    /\ odd = ConfigCost(state, tool_choices, special_tool_names)
    /\ odd <= MaxOdd

\* run, up to entering the step loop, on an agent whose memory holds mem
\* when run is entered: the state test, the request appended to memory, and
\* state_context's entry.
RunFrom(mem, request, cost) ==
    /\ pc = "idle"
    /\ odd + cost <= MaxOdd
    /\ odd' = odd + cost
    /\ runs' = runs + 1
    /\ IF InvalidState(state) THEN
          /\ outcome' = "invalid_state"
          /\ memory' = mem
          /\ UNCHANGED <<state, current_step, next_step_prompt,
                         tool_calls, pc, previous_state, results, pending,
                         act_results, steps_run, cleanups, returned,
                         last_query, finished_at, raised_by, dispatched,
                         last_dispatch>>
       ELSE
          /\ memory' = IF request # ""
                       THEN AddMessage(mem, UserMessage(request))
                       ELSE mem
          /\ results' = <<>>
          /\ previous_state' = state
          /\ state' = "RUNNING"
          /\ pc' = "loop"
          /\ steps_run' = 0
          /\ cleanups' = 0
          /\ outcome' = "running"
          /\ returned' = <<>>
          /\ last_query' = "none"
          /\ finished_at' = 0
          /\ raised_by' = "none"
          /\ dispatched' = 0
          /\ last_dispatch' = "none"
          /\ UNCHANGED <<current_step, next_step_prompt, tool_calls, pending,
                         act_results>>
    /\ UNCHANGED config

\* run, entered with the memory the agent holds.
RunEntry(request, cost) == RunFrom(memory, request, cost)

\* run, called on the agent directly.
RunCall(request) ==
    /\ RunEntry(request, RequestCost(request) + RunCost(runs))
    /\ UNCHANGED flowVars
    /\ UNCHANGED <<toolVars, kindVars>>

\* run: one more iteration of the step loop begins.
LoopIter ==
    /\ pc = "loop"
    /\ LoopContinues(current_step, max_steps, state)
    /\ current_step' = current_step + 1
    /\ steps_run' = steps_run + 1
    /\ pc' = "think"
    /\ UNCHANGED <<state, memory, next_step_prompt, tool_calls, previous_state,
                   results, pending, act_results, runs, cleanups, outcome,
                   returned, last_query, finished_at, raised_by, dispatched>>
    /\ UNCHANGED configOdd
    /\ UNCHANGED flowVars
    /\ UNCHANGED <<toolVars, kindVars>>

\* run: the loop ends, the budget test, and state_context's normal exit.
LoopExit ==
    /\ pc = "loop"
    /\ ~LoopContinues(current_step, max_steps, state)
    /\ IF BudgetExhausted(current_step, max_steps) THEN
          /\ current_step' = 0
          /\ results' = Append(results, [step |-> 0, text |-> <<MAX_STEPS_REACHED>>])
          /\ state' = RestoredState(previous_state, "IDLE")
       ELSE
          /\ state' = RestoredState(previous_state, state)
          /\ UNCHANGED <<current_step, results>>
    /\ pc' = "cleanup"
    /\ UNCHANGED <<memory, next_step_prompt, tool_calls, previous_state,
                   pending, act_results, runs, steps_run, cleanups, outcome,
                   returned, last_query, finished_at, raised_by, dispatched>>
    /\ UNCHANGED configOdd
    /\ UNCHANGED flowVars
    /\ UNCHANGED <<toolVars, kindVars>>

\* run: the sandbox cleanup and the return.
Cleanup ==
    /\ pc = "cleanup"
    /\ cleanups' = cleanups + 1
    /\ returned' = ReturnValue(results)
    /\ outcome' = "returned"
    /\ pc' = "idle"
    /\ UNCHANGED <<state, current_step, memory, next_step_prompt, tool_calls,
                   previous_state, results, pending, act_results, runs,
                   steps_run, last_query, finished_at, raised_by, dispatched>>
    /\ UNCHANGED configOdd
    /\ UNCHANGED flowVars
    /\ UNCHANGED <<toolVars, kindVars>>

\* run, after step returned: the stuck check and the step's result line.
StepReturns(mem, step_result) ==
    /\ next_step_prompt' = IF IsStuck(mem) THEN HandleStuckState(next_step_prompt)
                           ELSE next_step_prompt
    /\ results' = Append(results, [step |-> current_step, text |-> step_result])
    /\ pc' = "loop"

\* step: think, given what the model query yields.
DoThink(q) ==
    /\ pc = "think"
    /\ odd + QueryCost(q) <= MaxOdd
    /\ odd' = odd + QueryCost(q)
    /\ LET t == Think(q, memory, next_step_prompt, state, tool_calls, tool_choices)
       IN  /\ memory' = t.memory
           /\ state' = t.state
           /\ tool_calls' = t.tool_calls
           /\ last_query' = q.kind
           /\ finished_at' = IF t.state = "FINISHED" /\ state # "FINISHED"
                             THEN steps_run ELSE finished_at
           /\ IF t.ret = "raise" THEN
                 /\ pc' = "raising"
                 /\ raised_by' = "think"
                 /\ UNCHANGED <<next_step_prompt, results>>
              ELSE IF t.ret = "true" THEN
                 /\ pc' = "act"
                 /\ UNCHANGED <<next_step_prompt, results, raised_by>>
              ELSE
                 /\ StepReturns(t.memory, <<NO_ACTION>>)
                 /\ UNCHANGED raised_by
    /\ UNCHANGED <<current_step, previous_state, pending, act_results, runs,
                   steps_run, cleanups, outcome, returned, dispatched,
                   last_dispatch>>
    /\ UNCHANGED config
    /\ UNCHANGED flowVars
    /\ UNCHANGED <<toolVars, kindVars>>

\* step: act, up to its first tool dispatch.
DoAct ==
    /\ pc = "act"
    /\ IF tool_calls = <<>> THEN
          LET r == ActWithoutCalls(memory, tool_choices)
          IN  IF r = "raise" THEN
                 /\ pc' = "raising"
                 /\ raised_by' = "act"
                 /\ UNCHANGED <<next_step_prompt, results, pending, act_results>>
              ELSE
                 /\ StepReturns(memory, <<r>>)
                 /\ UNCHANGED <<raised_by, pending, act_results>>
       ELSE
          /\ pending' = 1
          /\ act_results' = <<>>
          /\ pc' = "dispatch"
          /\ UNCHANGED <<next_step_prompt, results, raised_by>>
    /\ UNCHANGED <<state, current_step, memory, tool_calls, previous_state,
                   runs, steps_run, cleanups, outcome, returned, last_query,
                   finished_at, dispatched>>
    /\ UNCHANGED configOdd
    /\ UNCHANGED flowVars
    /\ UNCHANGED <<toolVars, kindVars>>

\* act: what one iteration of the for loop leaves once execute_tool has
\* yielded e for the command: the state, the tool message, and the next
\* iteration or the end of the step.
Dispatched(command, e) ==
    LET mem1 == AddMessage(memory,
                           ToolMessage(e.text, command.id, command.name))
        res1 == Append(act_results, e.text)
    IN  /\ state' = e.state
        /\ finished_at' = IF e.state = "FINISHED" /\ state # "FINISHED"
                          THEN steps_run ELSE finished_at
        /\ IF e.raised THEN
              /\ pc' = "raising"
              /\ raised_by' = "execute_tool"
              /\ UNCHANGED <<memory, next_step_prompt, results, pending,
                             act_results>>
           ELSE IF ActLoopContinues(pending, tool_calls, e.state) THEN
              /\ memory' = mem1
              /\ act_results' = res1
              /\ pending' = pending + 1
              /\ pc' = "dispatch"
              /\ UNCHANGED <<next_step_prompt, results, raised_by>>
           ELSE
              /\ memory' = mem1
              /\ act_results' = res1
              /\ StepReturns(mem1, res1)
              /\ UNCHANGED <<pending, raised_by>>

\* act: one iteration of the for loop, given what invoking the tool yields.
Dispatch(o) ==
    /\ pc = "dispatch"
    /\ LET command == Command(tool_calls, pending)
           e == ExecuteTool(command, o, state, special_tool_names)
       IN  /\ o \in ToolOutcomes(command.name)
           /\ ~e.invoked => o = "output"
           /\ odd + OutcomeCost(o) <= MaxOdd
           /\ odd' = odd + OutcomeCost(o)
           /\ last_dispatch' = DispatchCase(command, o)
           /\ dispatched' = IF e.invoked THEN dispatched + 1 ELSE dispatched
           /\ Dispatched(command, e)
    /\ UNCHANGED <<current_step, tool_calls, previous_state, runs, steps_run,
                   cleanups, outcome, returned, last_query>>
    /\ UNCHANGED config
    /\ UNCHANGED flowVars
    /\ UNCHANGED <<toolVars, kindVars>>

\* state_context: the except clause.
ContextExcept ==
    /\ pc = "raising"
    /\ state' = FailedState(state)
    /\ pc' = "finally"
    /\ UNCHANGED <<current_step, memory, next_step_prompt, tool_calls,
                   previous_state, results, pending, act_results, runs,
                   steps_run, cleanups, outcome, returned, last_query,
                   finished_at, raised_by, dispatched>>
    /\ UNCHANGED configOdd
    /\ UNCHANGED flowVars
    /\ UNCHANGED <<toolVars, kindVars>>

\* state_context: the finally clause after a failure; the failure leaves run.
ContextFinally ==
    /\ pc = "finally"
    /\ state' = RestoredState(previous_state, state)
    /\ outcome' = "raised"
    /\ pc' = "idle"
    /\ UNCHANGED <<current_step, memory, next_step_prompt, tool_calls,
                   previous_state, results, pending, act_results, runs,
                   steps_run, cleanups, returned, last_query, finished_at,
                   raised_by, dispatched>>
    /\ UNCHANGED configOdd
    /\ UNCHANGED flowVars
    /\ UNCHANGED <<toolVars, kindVars>>

\* ------------------------------------------------------------ PlanningFlow
Range(seq) == {seq[i] : i \in 1..Len(seq)}

\* Sequences of at most n distinct elements of S.
DistinctSeqs(S, n) ==
    UNION {{q \in [1..k -> S] : \A i, j \in 1..k : i # j => q[i] # q[j]} :
             k \in 0..n}

\* BaseFlow.__init__: the primary key, by default the first agent's.
PrimaryKeyInit(given, agentKeys) ==
    IF given = "" /\ agentKeys # <<>> THEN Head(agentKeys) ELSE given

\* PlanningFlow.__init__: the executor keys, by default all agent keys.
ExecutorKeysInit(given, agentKeys) ==
    IF given = <<>> THEN agentKeys ELSE given

\* primary_agent: the key of the agent agents.get yields ("none": None).
PrimaryAgent(primary, agentKeys) ==
    IF primary \in Range(agentKeys) THEN primary ELSE "none"

\* get_executor: the first executor key that names an agent ("": none).
RECURSIVE FirstPresent(_, _)
FirstPresent(keys, agentKeys) ==
    IF keys = <<>> THEN ""
    ELSE IF Head(keys) \in Range(agentKeys) THEN Head(keys)
    ELSE FirstPresent(Tail(keys), agentKeys)

\* (a selection that does not look at the step's type)
GetExecutorIgnoringType(type, agentKeys, keys, primary) ==
    IF FirstPresent(keys, agentKeys) # "" THEN FirstPresent(keys, agentKeys)
    ELSE PrimaryAgent(primary, agentKeys)

\* get_executor: the key of the agent returned.
GetExecutor(type, agentKeys, keys, primary) ==
    IF type # "" /\ type \in Range(agentKeys) THEN type
    ELSE IF FirstPresent(keys, agentKeys) # "" THEN FirstPresent(keys, agentKeys)
    ELSE PrimaryAgent(primary, agentKeys)

\* _get_current_step_info: re.search(r"\[([A-Z_]+)\]", step), lower-cased.
StepType(text) ==
    IF text \in {"[SEARCH] do", "do [SEARCH]"} THEN "search" ELSE ""

\* _get_current_step_info: the status of step i (indices from 0).
StatusAt(statuses, i) ==
    IF i >= Len(statuses) THEN "not_started" ELSE statuses[i + 1]

\* (a scan that prefers the latest active step)
RECURSIVE LastActive(_, _, _)
LastActive(planSteps, statuses, i) ==
    IF i >= Len(planSteps) THEN NoStep
    ELSE IF LastActive(planSteps, statuses, i + 1) # NoStep
         THEN LastActive(planSteps, statuses, i + 1)
    ELSE IF StatusAt(statuses, i) \in ActiveStatuses THEN i
    ELSE NoStep

\* _get_current_step_info: the scan for the first active step, from i on.
RECURSIVE FirstActive(_, _, _)
FirstActive(planSteps, statuses, i) ==
    IF i >= Len(planSteps) THEN NoStep
    ELSE IF StatusAt(statuses, i) \in ActiveStatuses THEN i
    ELSE FirstActive(planSteps, statuses, i + 1)

\* The plan store's mark_step: sets the status of step i, and fails for an
\* index that names no step or no status entry.
MarkStep(planSteps, statuses, i, status) ==
    IF i < 0 \/ i >= Len(planSteps) \/ i >= Len(statuses)
    THEN [ok |-> FALSE, statuses |-> statuses]
    ELSE [ok |-> TRUE, statuses |-> [statuses EXCEPT ![i + 1] = status]]

\* _get_current_step_info: the status list updated directly when mark_step
\* failed.
MarkDirectly(statuses, i) ==
    IF i < Len(statuses) THEN [statuses EXCEPT ![i + 1] = "in_progress"]
    ELSE statuses \o [j \in 1..(i - Len(statuses)) |-> "not_started"]
                  \o <<"in_progress">>

\* _get_current_step_info: the index returned, the step's type and the
\* status list left.
GetCurrentStepInfo(inStore, planSteps, statuses) ==
    IF ~inStore THEN [index |-> NoStep, type |-> "", statuses |-> statuses]
    ELSE LET i == FirstActive(planSteps, statuses, 0)
         IN  IF i = NoStep
             THEN [index |-> NoStep, type |-> "", statuses |-> statuses]
             ELSE LET m == MarkStep(planSteps, statuses, i, "in_progress")
                  IN  [index |-> i, type |-> StepType(planSteps[i + 1]),
                       statuses |-> IF m.ok THEN m.statuses
                                    ELSE MarkDirectly(statuses, i)]

\* (a completion that is recorded whatever the run did)
StepCompletedAlways(how) == TRUE

\* _execute_step: the step is marked completed when run returned.
StepCompleted(how) == how = "returned"

\* _mark_step_completed
MarkStepCompleted(planSteps, statuses, i) ==
    IF i = NoStep THEN statuses
    ELSE MarkStep(planSteps, statuses, i, "completed").statuses

\* The plan store's create: the plan is registered with its steps, all
\* not_started.
PlanCreate(planSteps) ==
    [steps |-> planSteps,
     statuses |-> [i \in 1..Len(planSteps) |-> "not_started"]]

\* _create_initial_plan: the first call of the planning tool whose argument
\* payload decodes; it is the one executed.
RECURSIVE FirstPlanningCall(_)
FirstPlanningCall(calls) ==
    IF calls = <<>> THEN [found |-> FALSE, command |-> "", steps |-> <<>>]
    ELSE IF Head(calls).name = "planning" /\ Head(calls).valid
         THEN [found |-> TRUE, command |-> Head(calls).command,
               steps |-> Head(calls).steps]
    ELSE FirstPlanningCall(Tail(calls))

\* _create_initial_plan, for what the planning query yields: what it met,
\* whether a plan is registered and with which steps, and whether it
\* raised.
CreateInitialPlan(r) ==
    IF r.kind # "response" THEN
        [met |-> "query_failed", registered |-> FALSE, steps |-> <<>>,
         raised |-> TRUE]
    ELSE LET c == FirstPlanningCall(r.tool_calls)
         IN  IF c.found /\ c.command = "create" THEN
                 [met |-> "create", registered |-> TRUE, steps |-> c.steps,
                  raised |-> FALSE]
             ELSE IF c.found THEN
                 [met |-> "not_create", registered |-> FALSE, steps |-> <<>>,
                  raised |-> r.raises]
             ELSE
                 [met |-> "no_planning_call", registered |-> TRUE,
                  steps |-> DEFAULT_STEPS, raised |-> FALSE]

\* How far a flow and its plan depart from the plain course: one agent
\* under the key default, no executor or primary key given, a plan in the
\* store whose steps carry no token and have not started.
RECURSIVE SeqCost(_, _)
SeqCost(seq, plain) ==
    IF seq = <<>> THEN 0
    ELSE (IF Head(seq) = plain THEN 0 ELSE 1) + SeqCost(Tail(seq), plain)

FlowCost(agentKeys, givenKeys, givenPrimary) ==
    (IF agentKeys # <<"default">> THEN 1 ELSE 0)
    + (IF givenKeys # <<>> THEN 1 ELSE 0)
    + (IF givenPrimary # "" THEN 1 ELSE 0)

PlanCost(planSteps, statuses) ==
    SeqCost(planSteps, "do") + SeqCost(statuses, "not_started")
    + (Len(planSteps) - Len(statuses))

\* The flows, and the plans a store holds, that depart from the plain
\* course by at most n.
FlowSetups ==
    [agents : DistinctSeqs(FlowKeys, Cardinality(FlowKeys)),
     givenKeys : DistinctSeqs(ConfiguredKeys, 2),
     givenPrimary : {""} \cup ConfiguredKeys]

FlowSetupsWithin ==
    [n \in 0..MaxOdd |->
       {f \in FlowSetups : FlowCost(f.agents, f.givenKeys, f.givenPrimary) <= n}]

StepSeqs ==
    {q \in UNION {[1..n -> StepTexts] : n \in 0..MaxPlanSteps} :
       SeqCost(q, "do") <= MaxOdd}

StatusSeqs ==
    {q \in UNION {[1..n -> PlanStepStatus] : n \in 0..MaxPlanSteps} :
       SeqCost(q, "not_started") <= MaxOdd}

PlanSetups ==
    {p \in [steps : StepSeqs, statuses : StatusSeqs] :
       /\ Len(p.statuses) <= Len(p.steps)
       /\ PlanCost(p.steps, p.statuses) <= MaxOdd}

\* What the planning query yields: a response whose calls name the planning
\* tool or another one, with a payload that decodes or not, asking for a
\* create with its steps (at most one of them with a bracketed token) or
\* for another command (which may raise), or a failure of the query.
PlanCallShapes ==
    {[name |-> "bash", valid |-> TRUE, command |-> "", steps |-> <<>>],
     [name |-> "planning", valid |-> FALSE, command |-> "", steps |-> <<>>],
     [name |-> "planning", valid |-> TRUE, command |-> "get", steps |-> <<>>]}
    \cup {[name |-> "planning", valid |-> TRUE, command |-> "create",
            steps |-> q] :
              q \in {x \in StepSeqs : x # <<>> /\ SeqCost(x, "do") <= 1}}

PlanCallCost(c) ==
    IF c.name = "planning" /\ c.valid /\ c.command = "create"
    THEN SeqCost(c.steps, "do") ELSE 1

PlanResponses ==
    {[kind |-> "failure", tool_calls |-> <<>>, raises |-> FALSE]}
    \cup {[kind |-> "response", tool_calls |-> tc, raises |-> b] :
            tc \in UNION {[1..n -> PlanCallShapes] : n \in 0..MaxToolCalls},
            b \in BOOLEAN}

RECURSIVE PlanCallsCost(_)
PlanCallsCost(tc) ==
    IF tc = <<>> THEN 0 ELSE PlanCallCost(Head(tc)) + PlanCallsCost(Tail(tc))

PlanResponseCost(r) ==
    IF r.kind # "response" THEN 1
    ELSE IF r.tool_calls = <<>> THEN 1
    ELSE (IF r.raises THEN 1 ELSE 0) + (Len(r.tool_calls) - 1)
         + PlanCallsCost(r.tool_calls)

PlanResponsesWithin ==
    [n \in 0..MaxOdd |->
       {r \in PlanResponses :
          /\ PlanResponseCost(r) <= n
          /\ r.raises => /\ r.kind = "response"
                          /\ FirstPlanningCall(r.tool_calls).found
                          /\ FirstPlanningCall(r.tool_calls).command # "create"}]

\* What the executor's model and tools yield in a flow: the plain response,
\* a response that asks for terminate, and the failures of the query; a
\* tool's output or its ToolError.
FlowQueries ==
    {q \in LLMOutcomes :
       \/ q.kind \in {"value_error", "token_limit"}
       \/ /\ q.kind = "response"
          /\ q.content = "a"
          /\ Len(q.tool_calls) = 1
          /\ q.tool_calls[1].name \in ToolNames
          /\ q.tool_calls[1].arguments = "{}"}

FlowQueriesWithin ==
    [n \in 0..MaxOdd |-> {q \in FlowQueries : QueryCost(q) <= n}]

\* A run for the plan step of the latest run is a departure.
FlowRunCost(i, last) == IF i = last THEN 1 ELSE 0

\* What the store of a flow holds under its plan identifier: a plan, or
\* nothing (a departure).
StoreSetups ==
    {[in_store |-> TRUE, steps |-> p.steps, statuses |-> p.statuses,
      cost |-> PlanCost(p.steps, p.statuses)] : p \in PlanSetups}
    \cup {[in_store |-> FALSE, steps |-> <<>>, statuses |-> <<>>, cost |-> 1]}

\* A flow as constructed, with the plan its store holds.
FlowInit ==
    /\ \E p \in StoreSetups :
          /\ plan_in_store = p.in_store
          /\ steps = p.steps
          /\ step_statuses = p.statuses
          /\ \E f \in FlowSetupsWithin[MaxOdd - p.cost] :
                /\ agents = f.agents
                /\ executor_keys = ExecutorKeysInit(f.givenKeys, f.agents)
                /\ primary_agent_key = PrimaryKeyInit(f.givenPrimary, f.agents)
                /\ AgentInit
                /\ special_tool_names = {"terminate"}
                /\ odd = p.cost
                         + FlowCost(f.agents, f.givenKeys, f.givenPrimary)
                         + ConfigCost(state, tool_choices, special_tool_names)
                /\ odd <= MaxOdd
    /\ current_step_index = NoStep
    /\ step_type = ""
    /\ executor = "none"
    /\ parked = [k \in FlowKeys |-> AgentFields(state)]
    /\ fpc = "start"
    /\ flow_result = <<>>
    /\ last_run_step = NoStep
    /\ signalled = FALSE
    /\ planned = ""
    /\ NoTools
    /\ NoKinds

agentVars == <<state, current_step, max_steps, memory, next_step_prompt,
               tool_choices, special_tool_names, tool_calls, pc,
               previous_state, results, pending, act_results, runs, steps_run,
               cleanups, outcome, returned, last_query, finished_at, raised_by,
               dispatched, last_dispatch, odd>>

flowConfig == <<agents, executor_keys, primary_agent_key, plan_in_store, steps,
                planned>>

\* (an execute that lets the failure through: nothing is returned)
ExecuteExceptPropagates == <<>>

\* execute's except clause: the failure becomes the value returned.
ExecuteExcept == <<[step |-> NoStep, text |-> <<FLOW_FAILED>>]>>

\* execute, up to the planning query or the loop: without a primary agent
\* the failure raised is turned into the value returned.  An input text is
\* given only to a flow whose store does not hold the plan identifier.
FlowExecute(input_text) ==
    /\ fpc = "start"
    /\ input_text # "" => ~plan_in_store
    /\ IF PrimaryAgent(primary_agent_key, agents) = "none" THEN
          /\ flow_result' = ExecuteExcept
          /\ fpc' = "done"
       ELSE IF input_text # "" THEN
          /\ fpc' = "planning"
          /\ UNCHANGED flow_result
       ELSE
          /\ fpc' = "resolve"
          /\ UNCHANGED flow_result
    /\ UNCHANGED <<step_statuses, current_step_index, step_type, executor,
                   parked, last_run_step, signalled>>
    /\ UNCHANGED flowConfig
    /\ UNCHANGED <<toolVars, kindVars>>
    /\ UNCHANGED agentVars

\* execute: the initial plan is created from what the planning query
\* yields, and the plan identifier is looked up in the store.
FlowCreatePlan(r) ==
    /\ fpc = "planning"
    /\ odd + PlanResponseCost(r) <= MaxOdd
    /\ odd' = odd + PlanResponseCost(r)
    /\ LET c == CreateInitialPlan(r)
       IN  /\ planned' = c.met
           /\ plan_in_store' = c.registered
           /\ steps' = c.steps
           /\ step_statuses' = PlanCreate(c.steps).statuses
           /\ IF c.raised THEN
                 /\ flow_result' = ExecuteExcept
                 /\ fpc' = "done"
              ELSE IF ~c.registered THEN
                 /\ flow_result' = <<[step |-> NoStep,
                                      text |-> <<CREATE_FAILED>>]>>
                 /\ fpc' = "done"
              ELSE
                 /\ fpc' = "resolve"
                 /\ UNCHANGED flow_result
    /\ UNCHANGED <<agents, executor_keys, primary_agent_key,
                   current_step_index, step_type, executor, parked,
                   last_run_step, signalled>>
    /\ UNCHANGED <<toolVars, kindVars>>
    /\ UNCHANGED <<state, current_step, max_steps, memory, next_step_prompt,
                   tool_choices, special_tool_names, tool_calls, pc,
                   previous_state, results, pending, act_results, runs,
                   steps_run, cleanups, outcome, returned, last_query,
                   finished_at, raised_by, dispatched, last_dispatch>>

\* execute: the current step is resolved; without one the plan is
\* finalized and the loop ends.
FlowResolve ==
    /\ fpc = "resolve"
    /\ LET r == GetCurrentStepInfo(plan_in_store, steps, step_statuses)
       IN  /\ current_step_index' = r.index
           /\ step_type' = r.type
           /\ step_statuses' = r.statuses
           /\ IF r.index = NoStep THEN
                 /\ flow_result' = Append(flow_result,
                        [step |-> NoStep, text |-> <<PLAN_COMPLETED>>])
                 /\ fpc' = "done"
              ELSE
                 /\ fpc' = "select"
                 /\ UNCHANGED flow_result
    /\ UNCHANGED <<executor, parked, last_run_step, signalled>>
    /\ UNCHANGED flowConfig
    /\ UNCHANGED <<toolVars, kindVars>>
    /\ UNCHANGED agentVars

\* execute: the executor of the step is selected; from here on the agent
\* variables are its fields.
FlowSelect ==
    /\ fpc = "select"
    /\ pc = "idle"
    /\ LET k == GetExecutor(step_type, agents, executor_keys, primary_agent_key)
           cur == [state |-> state, current_step |-> current_step,
                   memory |-> memory, next_step_prompt |-> next_step_prompt,
                   tool_calls |-> tool_calls]
       IN  /\ executor' = k
           /\ IF k = executor \/ executor = "none" THEN
                 UNCHANGED <<state, current_step, memory, next_step_prompt,
                             tool_calls, parked>>
              ELSE
                 /\ parked' = [parked EXCEPT ![executor] = cur]
                 /\ state' = parked[k].state
                 /\ current_step' = parked[k].current_step
                 /\ memory' = parked[k].memory
                 /\ next_step_prompt' = parked[k].next_step_prompt
                 /\ tool_calls' = parked[k].tool_calls
    /\ fpc' = "execute"
    /\ UNCHANGED <<step_statuses, current_step_index, step_type, flow_result,
                   last_run_step, signalled>>
    /\ UNCHANGED flowConfig
    /\ UNCHANGED <<toolVars, kindVars>>
    /\ UNCHANGED <<max_steps, tool_choices, special_tool_names, pc,
                   previous_state, results, pending, act_results, runs,
                   steps_run, cleanups, outcome, returned, last_query,
                   finished_at, raised_by, dispatched, last_dispatch, odd>>

\* _execute_step: the executor is run with the step's prompt.
FlowExecuteStep ==
    /\ fpc = "execute"
    /\ RunEntry(STEP_PROMPT, FlowRunCost(current_step_index, last_run_step))
    /\ last_run_step' = current_step_index
    /\ fpc' = "running"
    /\ UNCHANGED <<step_statuses, current_step_index, step_type, executor,
                   parked, flow_result, signalled>>
    /\ UNCHANGED flowConfig
    /\ UNCHANGED <<toolVars, kindVars>>

\* _execute_step once run is over, and execute's test of the executor's
\* state: the step is marked completed or the failure becomes its result.
FlowStepDone ==
    /\ fpc = "running"
    /\ pc = "idle"
    /\ IF StepCompleted(outcome) THEN
          /\ step_statuses' = MarkStepCompleted(steps, step_statuses,
                                                current_step_index)
          /\ flow_result' = Append(flow_result,
                 [step |-> current_step_index, text |-> returned])
       ELSE
          /\ flow_result' = Append(flow_result,
                 [step |-> current_step_index, text |-> <<STEP_FAILED>>])
          /\ UNCHANGED step_statuses
    /\ signalled' = (signalled \/ (outcome = "returned" /\ finished_at > 0
                                   /\ last_query = "response"))
    /\ fpc' = IF state = "FINISHED" THEN "done" ELSE "resolve"
    /\ UNCHANGED <<current_step_index, step_type, executor, parked,
                   last_run_step>>
    /\ UNCHANGED flowConfig
    /\ UNCHANGED <<toolVars, kindVars>>
    /\ UNCHANGED agentVars

Next ==
    \/ \E request \in Requests : RunCall(request)
    \/ LoopIter
    \/ LoopExit
    \/ \E q \in OutcomesWithin[MaxOdd - odd] : DoThink(q)
    \/ DoAct
    \/ \E o \in {"output", "empty", "tool_error", "exception"} : Dispatch(o)
    \/ Cleanup
    \/ ContextExcept
    \/ ContextFinally

Spec == Init /\ [][Next]_vars

\* The run in flight makes progress: every awaited query and tool invocation
\* returns or raises, and the event loop resumes the coroutine.
Progress ==
    \/ LoopIter
    \/ LoopExit
    \/ \E q \in OutcomesWithin[MaxOdd - odd] : DoThink(q)
    \/ DoAct
    \/ \E o \in {"output", "empty", "tool_error", "exception"} : Dispatch(o)
    \/ Cleanup
    \/ ContextExcept
    \/ ContextFinally

FairSpec == Spec /\ WF_vars(Progress)

FlowNext ==
    \/ \E input_text \in Requests : FlowExecute(input_text)
    \/ \E r \in PlanResponsesWithin[MaxOdd - odd] : FlowCreatePlan(r)
    \/ FlowResolve
    \/ FlowSelect
    \/ FlowExecuteStep
    \/ FlowStepDone
    \/ LoopIter
    \/ LoopExit
    \/ \E q \in FlowQueriesWithin[MaxOdd - odd] : DoThink(q)
    \/ DoAct
    \/ \E o \in {"output", "tool_error"} : Dispatch(o)
    \/ Cleanup
    \/ ContextExcept
    \/ ContextFinally

FlowSpec == FlowInit /\ [][FlowNext]_vars

\* ---------------------------------------------------------- shared tools
\* One default agent stands for the engine; the flow is not in use.
DefaultAgent ==
    /\ AgentInit
    /\ state = "IDLE"
    /\ max_steps = MaxSteps
    /\ tool_choices = "auto"
    /\ special_tool_names = {"terminate"}
    /\ odd = 0

ToolInit ==
    /\ DefaultAgent
    /\ NoFlow
    /\ NoTools
    /\ NoKinds

engineVars == <<agentVars, flowVars, kindVars>>

bashVars == <<session, stdin, stdout, timed_out, spc, got>>

browserVars == <<lock, browser, context, bpc, browser_inits>>

\* ----------------------------------------------------------- BrowserUseTool
\* (a lock that lets every caller in)
LockFreeAlways(l, waiting) == TRUE

\* asyncio.Lock: a caller enters at once when the lock is free and no
\* caller waits for it.
LockFree(l, waiting) == l = 0 /\ waiting = {}

\* The agents waiting for the tool's lock.
Waiting == {p \in Agents : bpc[p] \in {"wait_execute", "wait_cleanup"}}

\* An agent is inside execute's or cleanup's "async with self.lock".
InCritical(p) ==
    bpc[p] \in {"new_context", "action", "close_context", "close_browser"}

\* execute and cleanup, from taking the lock to the first await:
\* _ensure_browser_initialized creates the browser and asks for a context
\* when there is none; cleanup closes the context, then the browser, and
\* releases the lock at once when there is neither.
EnterCritical(p, op) ==
    IF op = "execute" THEN
        /\ lock' = p
        /\ browser' = TRUE
        /\ browser_inits' = IF browser THEN browser_inits
                            ELSE browser_inits + 1
        /\ bpc' = [bpc EXCEPT ![p] = IF context THEN "action"
                                     ELSE "new_context"]
        /\ UNCHANGED context
    ELSE IF context THEN
        /\ lock' = p
        /\ bpc' = [bpc EXCEPT ![p] = "close_context"]
        /\ UNCHANGED <<browser, context, browser_inits>>
    ELSE IF browser THEN
        /\ lock' = p
        /\ bpc' = [bpc EXCEPT ![p] = "close_browser"]
        /\ UNCHANGED <<browser, context, browser_inits>>
    ELSE
        /\ bpc' = [bpc EXCEPT ![p] = "idle"]
        /\ UNCHANGED <<lock, browser, context, browser_inits>>

\* An agent calls execute or cleanup.
BrowserCall(p, op) ==
    /\ bpc[p] = "idle"
    /\ calls_made < MaxCalls
    /\ calls_made' = calls_made + 1
    /\ IF LockFree(lock, Waiting) THEN EnterCritical(p, op)
       ELSE
          /\ bpc' = [bpc EXCEPT ![p] = "wait_" \o op]
          /\ UNCHANGED <<lock, browser, context, browser_inits>>
    /\ UNCHANGED bashVars
    /\ UNCHANGED engineVars

\* A waiting agent gets the lock.
BrowserAcquire(p) ==
    /\ bpc[p] \in {"wait_execute", "wait_cleanup"}
    /\ LockFree(lock, {})
    /\ EnterCritical(p, IF bpc[p] = "wait_execute" THEN "execute"
                        ELSE "cleanup")
    /\ UNCHANGED calls_made
    /\ UNCHANGED bashVars
    /\ UNCHANGED engineVars

\* _ensure_browser_initialized: browser.new_context returns or raises; a
\* failure is caught by execute, which returns an error result.
BrowserNewContext(p, ok) ==
    /\ bpc[p] = "new_context"
    /\ IF ok THEN
          /\ context' = TRUE
          /\ bpc' = [bpc EXCEPT ![p] = "action"]
          /\ UNCHANGED lock
       ELSE
          /\ bpc' = [bpc EXCEPT ![p] = "idle"]
          /\ lock' = 0
          /\ UNCHANGED context
    /\ UNCHANGED <<browser, browser_inits, calls_made>>
    /\ UNCHANGED bashVars
    /\ UNCHANGED engineVars

\* execute: the action on the page is over (its failure is caught); the
\* result is returned and the lock released.
BrowserActionDone(p) ==
    /\ bpc[p] = "action"
    /\ bpc' = [bpc EXCEPT ![p] = "idle"]
    /\ lock' = 0
    /\ UNCHANGED <<browser, context, browser_inits, calls_made>>
    /\ UNCHANGED bashVars
    /\ UNCHANGED engineVars

\* cleanup: context.close returns or raises; a failure leaves cleanup.
BrowserCloseContext(p, ok) ==
    /\ bpc[p] = "close_context"
    /\ IF ok THEN
          /\ context' = FALSE
          /\ IF browser THEN
                /\ bpc' = [bpc EXCEPT ![p] = "close_browser"]
                /\ UNCHANGED lock
             ELSE
                /\ bpc' = [bpc EXCEPT ![p] = "idle"]
                /\ lock' = 0
       ELSE
          /\ bpc' = [bpc EXCEPT ![p] = "idle"]
          /\ lock' = 0
          /\ UNCHANGED context
    /\ UNCHANGED <<browser, browser_inits, calls_made>>
    /\ UNCHANGED bashVars
    /\ UNCHANGED engineVars

\* cleanup: browser.close returns or raises.
BrowserCloseBrowser(p, ok) ==
    /\ bpc[p] = "close_browser"
    /\ browser' = IF ok THEN FALSE ELSE browser
    /\ browser_inits' = IF ok THEN 0 ELSE browser_inits
    /\ bpc' = [bpc EXCEPT ![p] = "idle"]
    /\ lock' = 0
    /\ UNCHANGED <<context, calls_made>>
    /\ UNCHANGED bashVars
    /\ UNCHANGED engineVars

BrowserNext ==
    \/ \E p \in Agents, op \in {"execute", "cleanup"} : BrowserCall(p, op)
    \/ \E p \in Agents : BrowserAcquire(p)
    \/ \E p \in Agents, ok \in BOOLEAN : BrowserNewContext(p, ok)
    \/ \E p \in Agents : BrowserActionDone(p)
    \/ \E p \in Agents, ok \in BOOLEAN : BrowserCloseContext(p, ok)
    \/ \E p \in Agents, ok \in BOOLEAN : BrowserCloseBrowser(p, ok)

BrowserSpec == ToolInit /\ [][BrowserNext]_vars

\* --------------------------------------------------------------------- Bash
\* The shell's output for the command of agent p; the line that the echo
\* appended to every command prints.
OutputOf(p) == p

SENTINEL == 0

\* The index of the first sentinel in buf (0: there is none).
RECURSIVE FirstSentinel(_, _)
FirstSentinel(buf, i) ==
    IF i > Len(buf) THEN 0
    ELSE IF buf[i] = SENTINEL THEN i
    ELSE FirstSentinel(buf, i + 1)

\* _BashSession.run, up to the await after the command was written: the
\* session must have been started and must not have timed out.
SessionRun(p) ==
    IF session # "started" THEN
        /\ got' = [got EXCEPT ![p] = [kind |-> "not_started", output |-> <<>>]]
        /\ spc' = [spc EXCEPT ![p] = "idle"]
        /\ UNCHANGED stdin
    ELSE IF timed_out THEN
        /\ got' = [got EXCEPT ![p] = [kind |-> "timed_out", output |-> <<>>]]
        /\ spc' = [spc EXCEPT ![p] = "idle"]
        /\ UNCHANGED stdin
    ELSE
        /\ stdin' = Append(stdin, p)
        /\ spc' = [spc EXCEPT ![p] = "poll"]
        /\ got' = [got EXCEPT ![p] = [kind |-> "running", output |-> <<>>]]

\* Bash.execute with a command (restart is not asked for): without a
\* session one is created and its start awaited, otherwise the command is
\* run on the session there is.
BashExecute(p) ==
    /\ spc[p] = "idle"
    /\ calls_made < MaxCalls
    /\ calls_made' = calls_made + 1
    /\ IF session = "none" THEN
          /\ session' = "created"
          /\ spc' = [spc EXCEPT ![p] = "starting"]
          /\ got' = [got EXCEPT ![p] = [kind |-> "running", output |-> <<>>]]
          /\ UNCHANGED stdin
       ELSE
          /\ SessionRun(p)
          /\ UNCHANGED session
    /\ UNCHANGED <<stdout, timed_out>>
    /\ UNCHANGED browserVars
    /\ UNCHANGED engineVars

\* _BashSession.start: the shell process exists; execute goes on to run.
BashStarted(p) ==
    /\ spc[p] = "starting"
    /\ session' = "started"
    /\ IF timed_out THEN
          /\ got' = [got EXCEPT ![p] = [kind |-> "timed_out", output |-> <<>>]]
          /\ spc' = [spc EXCEPT ![p] = "idle"]
          /\ UNCHANGED stdin
       ELSE
          /\ stdin' = Append(stdin, p)
          /\ spc' = [spc EXCEPT ![p] = "poll"]
          /\ UNCHANGED got
    /\ UNCHANGED <<stdout, timed_out, calls_made>>
    /\ UNCHANGED browserVars
    /\ UNCHANGED engineVars

\* The shell runs the next command written to it: the command's output,
\* then the sentinel line.
ShellRuns ==
    /\ stdin # <<>>
    /\ stdout' = stdout \o <<OutputOf(Head(stdin)), SENTINEL>>
    /\ stdin' = Tail(stdin)
    /\ UNCHANGED <<session, timed_out, spc, got, calls_made>>
    /\ UNCHANGED browserVars
    /\ UNCHANGED engineVars

\* _BashSession.run: after a sleep the buffer holds the sentinel; what
\* stands before it is the output returned, and the buffer is cleared.
BashCollect(p) ==
    /\ spc[p] = "poll"
    /\ FirstSentinel(stdout, 1) # 0
    /\ got' = [got EXCEPT ![p] =
                 [kind |-> "output",
                  output |-> SubSeq(stdout, 1, FirstSentinel(stdout, 1) - 1)]]
    /\ stdout' = <<>>
    /\ spc' = [spc EXCEPT ![p] = "idle"]
    /\ UNCHANGED <<session, stdin, timed_out, calls_made>>
    /\ UNCHANGED browserVars
    /\ UNCHANGED engineVars

\* _BashSession.run: the sentinel has not shown up within the timeout.
BashTimeout(p) ==
    /\ spc[p] = "poll"
    /\ FirstSentinel(stdout, 1) = 0
    /\ timed_out' = TRUE
    /\ got' = [got EXCEPT ![p] = [kind |-> "timeout", output |-> <<>>]]
    /\ spc' = [spc EXCEPT ![p] = "idle"]
    /\ UNCHANGED <<session, stdin, stdout, calls_made>>
    /\ UNCHANGED browserVars
    /\ UNCHANGED engineVars

BashNext ==
    \/ \E p \in Agents : BashExecute(p)
    \/ \E p \in Agents : BashStarted(p)
    \/ ShellRuns
    \/ \E p \in Agents : BashCollect(p)
    \/ \E p \in Agents : BashTimeout(p)

BashSpec == ToolInit /\ [][BashNext]_vars

\* ----------------------------------------------------------------- claims
\* -------------------------------------------------------------------- Manus
\* The Manus agent is agent 1 of its browser tool.  Its think is the base
\* think: the browser state it adds to the prompt for the query is taken
\* off again afterwards.
\* _handle_special_tool is reached: the tool was invoked, did not fail
\* with an exception other than ToolError, and is a special tool.
SpecialReached(command, o, special) ==
    /\ command.name \in ToolNames
    /\ JsonLoads(command.arguments)
    /\ CollectionExecute(command.name, o) # "raise"
    /\ IsSpecialTool(command.name, special)

\* (a handler that finishes whatever became of the cleanup)
ManusHandleSpecialToolUnchecked(command, o, st, special, cleaned) ==
    ExecuteTool(command, o, st, special)

\* execute_tool with Manus._handle_special_tool: the base behaviour follows
\* the browser cleanup, and a failure of the cleanup is caught by
\* execute_tool and becomes its error text.
ManusHandleSpecialTool(command, o, st, special, cleaned) ==
    IF cleaned THEN ExecuteTool(command, o, st, special)
    ELSE [text |-> "error_tool_problem", raised |-> FALSE, state |-> st,
          invoked |-> TRUE]

\* A Manus agent as constructed; its browser tool may hold a browser and
\* a context from earlier use.
ManusInit ==
    /\ AgentInit
    /\ NoFlow
    /\ NoKinds
    /\ odd = ConfigCost(state, tool_choices, special_tool_names)
    /\ odd <= MaxOdd
    /\ lock = 0
    /\ browser \in BOOLEAN
    /\ context \in BOOLEAN
    /\ context => browser
    /\ bpc = [p \in Agents |-> "idle"]
    /\ browser_inits = IF browser THEN 1 ELSE 0
    /\ session = "none"
    /\ stdin = <<>>
    /\ stdout = <<>>
    /\ timed_out = FALSE
    /\ spc = [p \in Agents |-> "idle"]
    /\ got = [p \in Agents |-> [kind |-> "none", output |-> <<>>]]
    /\ calls_made = 0

\* act: an iteration of the for loop that does not reach the special
\* tool handling.
ManusDispatch(o) ==
    /\ pc = "dispatch"
    /\ ~SpecialReached(Command(tool_calls, pending), o, special_tool_names)
    /\ Dispatch(o)

\* execute_tool: a special tool has yielded its result, and
\* _handle_special_tool calls the browser tool's cleanup.
ManusSpecialTool(o) ==
    /\ pc = "dispatch"
    /\ LET command == Command(tool_calls, pending)
       IN  /\ o \in ToolOutcomes(command.name)
           /\ SpecialReached(command, o, special_tool_names)
           /\ odd + OutcomeCost(o) <= MaxOdd
           /\ odd' = odd + OutcomeCost(o)
           /\ last_dispatch' = DispatchCase(command, o)
    /\ dispatched' = dispatched + 1
    /\ LockFree(lock, Waiting)
    /\ EnterCritical(1, "cleanup")
    /\ pc' = "special_cleanup"
    /\ UNCHANGED <<state, current_step, memory, next_step_prompt, tool_calls,
                   previous_state, results, pending, act_results, runs,
                   steps_run, cleanups, outcome, returned, last_query,
                   finished_at, raised_by>>
    /\ UNCHANGED config
    /\ UNCHANGED flowVars
    /\ UNCHANGED <<bashVars, calls_made, kindVars>>

\* cleanup awaits the closing of the context and of the browser.
ManusCloseContext(ok) ==
    /\ pc = "special_cleanup"
    /\ BrowserCloseContext(1, ok)

ManusCloseBrowser(ok) ==
    /\ pc = "special_cleanup"
    /\ BrowserCloseBrowser(1, ok)

\* execute_tool once the cleanup is over: it succeeded when neither a
\* context nor a browser is left.
ManusSpecialDone ==
    /\ pc = "special_cleanup"
    /\ bpc[1] = "idle"
    /\ LET command == Command(tool_calls, pending)
           e == ManusHandleSpecialTool(command, last_dispatch, state,
                                       special_tool_names,
                                       ~browser /\ ~context)
       IN  Dispatched(command, e)
    /\ UNCHANGED <<current_step, tool_calls, previous_state, runs, steps_run,
                   cleanups, outcome, returned, last_query, dispatched>>
    /\ UNCHANGED configOdd
    /\ UNCHANGED flowVars
    /\ UNCHANGED <<toolVars, kindVars>>

ManusNext ==
    \/ \E request \in Requests : RunCall(request)
    \/ LoopIter
    \/ LoopExit
    \/ \E q \in OutcomesWithin[MaxOdd - odd] : DoThink(q)
    \/ DoAct
    \/ \E o \in {"output", "empty", "tool_error", "exception"} :
          ManusDispatch(o)
    \/ \E o \in {"output", "empty", "tool_error", "exception"} :
          ManusSpecialTool(o)
    \/ \E ok \in BOOLEAN : ManusCloseContext(ok)
    \/ \E ok \in BOOLEAN : ManusCloseBrowser(ok)
    \/ ManusSpecialDone
    \/ Cleanup
    \/ ContextExcept
    \/ ContextFinally

ManusSpec == ManusInit /\ [][ManusNext]_vars

\* ----------------------------------------------------------------- SWEAgent
\* A prompt is a sequence of tokens: an opening or a closing brace, a name,
\* or a piece of text without braces.
NEXT_STEP_TEMPLATE ==
    <<"{", "{", "observation", "}", "}", "text",
      "{", "{", "open_file", "}", "}", "text",
      "{", "{", "working_dir", "}", "}", "text">>

TemplateTokens == {"{", "}", "current_dir", "text"}

Templates ==
    {NEXT_STEP_TEMPLATE}
    \cup UNION {[1..n -> TemplateTokens] : n \in 0..MaxTemplate}

\* What bash.execute("pwd") yields.
PwdOutputs == {"dir"}

\* The place of the first x in t from i on (0: there is none).
RECURSIVE FirstAt(_, _, _)
FirstAt(t, x, i) ==
    IF i > Len(t) THEN 0
    ELSE IF t[i] = x THEN i
    ELSE FirstAt(t, x, i + 1)

\* str.format: x, then what the rest of the template gives.
Emit(x, r) ==
    IF r.raised THEN r ELSE [raised |-> FALSE, value |-> <<x>> \o r.value]

\* str.format(current_dir=...): a doubled brace gives one brace; a single
\* opening brace starts a replacement field that ends at the next closing
\* brace and must name current_dir; anything else raises.
RECURSIVE Format(_, _)
Format(t, current_dir) ==
    IF t = <<>> THEN [raised |-> FALSE, value |-> <<>>]
    ELSE IF Head(t) = "{" THEN
        IF Len(t) >= 2 /\ t[2] = "{"
        THEN Emit("{", Format(SubSeq(t, 3, Len(t)), current_dir))
        ELSE LET j == FirstAt(t, "}", 2)
                 k == FirstAt(t, "{", 2)
             IN  IF j = 0 \/ (k # 0 /\ k < j)
                    \/ SubSeq(t, 2, j - 1) # <<"current_dir">>
                 THEN [raised |-> TRUE, value |-> <<>>]
                 ELSE Emit(current_dir,
                           Format(SubSeq(t, j + 1, Len(t)), current_dir))
    ELSE IF Head(t) = "}" THEN
        IF Len(t) >= 2 /\ t[2] = "}"
        THEN Emit("}", Format(SubSeq(t, 3, Len(t)), current_dir))
        ELSE [raised |-> TRUE, value |-> <<>>]
    ELSE Emit(Head(t), Format(Tail(t), current_dir))

\* An SWE agent as constructed, with its next-step prompt.
SWEInit ==
    /\ template \in Templates
    /\ AgentBuilt(template)
    /\ state = "IDLE"
    /\ max_steps = MaxSteps
    /\ tool_choices = "auto"
    /\ special_tool_names = {"terminate"}
    /\ odd = 0
    /\ NoFlow
    /\ NoTools
    /\ step_execution_tracker = <<>>
    /\ plan_header = ""
    /\ working_dir = ""
    /\ lhs = <<>>
    /\ rhs = <<>>
    /\ combined = <<>>

\* run's loop and think, up to the model query: the working directory is
\* asked of the shell and the next-step prompt is formatted with it.
SWEThink(pwd) ==
    /\ pc = "loop"
    /\ LoopContinues(current_step, max_steps, state)
    /\ current_step' = current_step + 1
    /\ steps_run' = steps_run + 1
    /\ working_dir' = pwd
    /\ LET f == Format(next_step_prompt, pwd)
       IN  IF f.raised THEN
              /\ pc' = "raising"
              /\ raised_by' = "think"
              /\ UNCHANGED next_step_prompt
           ELSE
              /\ next_step_prompt' = f.value
              /\ pc' = "query"
              /\ UNCHANGED raised_by
    /\ UNCHANGED <<state, memory, tool_calls, previous_state, results, pending,
                   act_results, runs, cleanups, outcome, returned, last_query,
                   finished_at, dispatched>>
    /\ UNCHANGED configOdd
    /\ UNCHANGED flowVars
    /\ UNCHANGED toolVars
    /\ UNCHANGED <<step_execution_tracker, plan_header, template, lhs, rhs,
                   combined>>

\* The rest of the step (the query and the act phase, which leave the
\* prompt as it is) is over.
SWEStepDone ==
    /\ pc = "query"
    /\ pc' = "loop"
    /\ UNCHANGED <<state, current_step, memory, next_step_prompt, tool_calls,
                   previous_state, results, pending, act_results, runs,
                   steps_run, cleanups, outcome, returned, last_query,
                   finished_at, raised_by, dispatched>>
    /\ UNCHANGED configOdd
    /\ UNCHANGED flowVars
    /\ UNCHANGED <<toolVars, kindVars>>

SWENext ==
    \/ \E request \in Requests : RunCall(request)
    \/ \E pwd \in PwdOutputs : SWEThink(pwd)
    \/ SWEStepDone
    \/ LoopExit
    \/ Cleanup
    \/ ContextExcept
    \/ ContextFinally

SWESpec == SWEInit /\ [][SWENext]_vars

\* --------------------------------------------------------------- ToolResult
\* An optional text field: None, or a text (a sequence of characters).
None == [none |-> TRUE, text |-> <<>>]

Text(t) == [none |-> FALSE, text |-> t]

\* Python's truth value of an optional text: neither None nor empty.
Truthy(v) == ~v.none /\ v.text # <<>>

ResultFields == {"output", "error", "base64_image", "system"}

\* The results that are combined: each field None, empty or a short text.
ToolResults ==
    [output : {None, Text(<<>>), Text(<<"x">>), Text(<<"y">>)},
     error : {None, Text(<<>>), Text(<<"x">>)},
     base64_image : {None, Text(<<>>), Text(<<"x">>)},
     system : {None, Text(<<"x">>)}]

\* (a combination that puts the other operand's text first)
CombineFieldsOtherFirst(field, other_field, concatenate) ==
    IF Truthy(field) /\ Truthy(other_field) THEN
        IF concatenate
        THEN [raised |-> FALSE, value |-> Text(other_field.text \o field.text)]
        ELSE [raised |-> TRUE, value |-> None]
    ELSE [raised |-> FALSE,
          value |-> IF Truthy(field) THEN field ELSE other_field]

\* __add__: combine_fields.
CombineFields(field, other_field, concatenate) ==
    IF Truthy(field) /\ Truthy(other_field) THEN
        IF concatenate
        THEN [raised |-> FALSE, value |-> Text(field.text \o other_field.text)]
        ELSE [raised |-> TRUE, value |-> None]
    ELSE [raised |-> FALSE,
          value |-> IF Truthy(field) THEN field ELSE other_field]

\* __bool__
ResultBool(r) == \E f \in ResultFields : Truthy(r[f])

\* __add__: the result built from the combined fields, or the failure.
ResultAdd(a, b) ==
    LET c == [f \in ResultFields |->
                CombineFields(a[f], b[f], f # "base64_image")]
    IN  [done |-> TRUE,
         raised |-> \E f \in ResultFields : c[f].raised,
         value |-> [f \in ResultFields |-> c[f].value]]

\* Two results, not yet combined.
ResultInit ==
    /\ DefaultAgent
    /\ NoFlow
    /\ NoTools
    /\ step_execution_tracker = <<>>
    /\ plan_header = ""
    /\ working_dir = ""
    /\ template = <<>>
    /\ lhs \in ToolResults
    /\ rhs \in ToolResults
    /\ combined = [done |-> FALSE, raised |-> FALSE,
                   value |-> [f \in ResultFields |-> None]]

\* lhs + rhs
Add ==
    /\ ~combined.done
    /\ combined' = ResultAdd(lhs, rhs)
    /\ UNCHANGED <<step_execution_tracker, plan_header, working_dir, template,
                   lhs, rhs>>
    /\ UNCHANGED toolVars
    /\ UNCHANGED <<agentVars, flowVars>>

ResultNext == Add

ResultSpec == ResultInit /\ [][ResultNext]_vars

\* ---------------------------------------------------------- PlanningAgent
\* The header line of the plan rendering format (the Chinese word for
\* steps, then a colon), and the line _get_current_step_index looks for.
STEPS_HEADER == "steps_header_of_the_rendering_format"

STEPS_LINE_SOUGHT == "Steps:"

\* What the planning tool may put above a plan's step lines.
PlanHeaders == {STEPS_HEADER, STEPS_LINE_SOUGHT}

TITLE_LINE == <<"plan_title">>

PLAN_STATUS_PROMPT == "current_plan_status"

PLAN_REQUEST == "analyse_request_and_create_plan"

NO_PLAN_CREATED == "error_plan_id_required"

\* The planning tool's glyph of a status: [ ], an arrow, a check mark, [!].
Glyph(status) ==
    CASE status = "not_started" -> "[ ]"
      [] status = "in_progress" -> "[->]"
      [] status = "completed" -> "[v]"
      [] OTHER -> "[!]"

\* _get_current_step_index: the glyphs of a step that is not done.
ActiveGlyphs == {"[ ]", "[->]"}

\* get_plan: the output of the planning tool's get, a line being the
\* sequence of its tokens; for a plan the store does not hold get fails
\* and the result carries no output.
GetPlan(inStore, header, planSteps, statuses) ==
    IF ~inStore THEN [none |-> TRUE, lines |-> <<>>]
    ELSE [none |-> FALSE,
          lines |-> <<TITLE_LINE, <<>>, <<header>>>>
                    \o [i \in 1..Len(planSteps) |->
                          <<Glyph(StatusAt(statuses, i - 1)), planSteps[i]>>]]

\* _get_current_step_index: the first line, from line i on, that is the
\* line sought (0: none).
RECURSIVE StepsIndex(_, _)
StepsIndex(lines, i) ==
    IF i > Len(lines) THEN 0
    ELSE IF lines[i] = <<STEPS_LINE_SOUGHT>> THEN i
    ELSE StepsIndex(lines, i + 1)

\* _get_current_step_index: the first of the lines, from index i on
\* (indices from 0), that holds the glyph of a step not done.
RECURSIVE FirstActiveLine(_, _)
FirstActiveLine(lines, i) ==
    IF i >= Len(lines) THEN NoStep
    ELSE IF Range(lines[i + 1]) \cap ActiveGlyphs # {} THEN i
    ELSE FirstActiveLine(lines, i + 1)

\* _get_current_step_index: the index returned and the status list the
\* store is left with.  A plan without output fails splitlines, which the
\* except clause turns into None; a mark_step that fails changes nothing.
GetCurrentStepIndex(plan, planSteps, statuses) ==
    IF plan.none THEN [index |-> NoStep, statuses |-> statuses]
    ELSE LET h == StepsIndex(plan.lines, 1)
         IN  IF h = 0 THEN [index |-> NoStep, statuses |-> statuses]
             ELSE LET i == FirstActiveLine(
                               SubSeq(plan.lines, h + 1, Len(plan.lines)), 0)
                  IN  IF i = NoStep
                      THEN [index |-> NoStep, statuses |-> statuses]
                      ELSE [index |-> i,
                            statuses |-> MarkStep(planSteps, statuses, i,
                                                  "in_progress").statuses]

\* The registry of a planning agent: the tools it was built with and the
\* planning tool.
PlanAgentToolNames == ToolNames \cup {"planning"}

\* What the model yields to a planning agent's think: a response that asks
\* for registered tools, a response without calls, or a failure of the
\* query.  A call's identifier is given when the response is taken.
PlanAgentQueries ==
    {[kind |-> "response", content |-> "a", tool_calls |-> tc] :
       tc \in UNION {{[i \in 1..n |-> [id |-> i, name |-> k[i],
                                        arguments |-> "{}"]] :
                        k \in [1..n -> PlanAgentToolNames]} :
                       n \in 0..MaxToolCalls}}
    \cup {q \in QueryFailures : q.kind \in {"value_error", "token_limit"}}

PlanAgentQueriesWithin ==
    [n \in 0..MaxOdd |-> {q \in PlanAgentQueries : QueryCost(q) <= n}]

\* The calls of a response with identifiers no earlier call bears.
Renumbered(tc, base) ==
    [i \in 1..Len(tc) |-> [tc[i] EXCEPT !.id = base + i]]

\* think: the tracker after super().think() has returned ret and left
\* calls, with the current step index.
Tracked(tracker, ret, calls, special, index) ==
    IF /\ ret = "true"
       /\ calls # <<>>
       /\ calls[1].name # "planning"
       /\ calls[1].name \notin special
       /\ index # NoStep
    THEN (calls[1].id :> [step_index |-> index, tool_name |-> calls[1].name,
                          status |-> "pending", result |-> <<>>])
         @@ tracker
    ELSE tracker

\* act, after super().act() has returned result: whether the first call is
\* tracked, the tracker left, and the status list left by
\* update_plan_status (a mark_step that fails changes nothing).
Completes(tracker, calls) ==
    calls # <<>> /\ calls[1].id \in DOMAIN tracker

Completed(tracker, calls, result) ==
    IF Completes(tracker, calls)
    THEN [tracker EXCEPT ![calls[1].id] =
            [step_index |-> @.step_index, tool_name |-> @.tool_name,
             status |-> "completed", result |-> result]]
    ELSE tracker

UpdatePlanStatus(tracker, calls, special, inStore, planSteps, statuses) ==
    IF /\ Completes(tracker, calls)
       /\ calls[1].name # "planning"
       /\ calls[1].name \notin special
       /\ inStore
    THEN MarkStep(planSteps, statuses, tracker[calls[1].id].step_index,
                  "completed").statuses
    ELSE statuses

\* execute_tool of a planning agent: the planning tool is registered.  A
\* planning call of the act phase reads the plan.
PlanExecuteTool(command, o, st, special) ==
    IF command.name # "planning" THEN ExecuteTool(command, o, st, special)
    ELSE IF ~JsonLoads(command.arguments) THEN
        [text |-> "error_invalid_json", raised |-> FALSE, state |-> st,
         invoked |-> FALSE]
    ELSE IF o = "exception" THEN
        [text |-> "error_tool_problem", raised |-> FALSE, state |-> st,
         invoked |-> TRUE]
    ELSE
        [text |-> Observation(IF o = "tool_error" THEN "failure" ELSE o),
         raised |-> FALSE,
         state |-> HandleSpecialTool(command.name, o, st, special),
         invoked |-> TRUE]

PlanDispatchCase(command, o) ==
    IF command.name = "planning" /\ JsonLoads(command.arguments) THEN o
    ELSE DispatchCase(command, o)

\* create_initial_plan: the first call of the response that names the
\* planning tool (0: none); it is the one executed.
RECURSIVE FirstPlanning(_, _)
FirstPlanning(calls, i) ==
    IF i > Len(calls) THEN 0
    ELSE IF calls[i].name = "planning" THEN i
    ELSE FirstPlanning(calls, i + 1)

\* The calls of a planning response as the assistant message records them.
Recorded(calls, base) ==
    [i \in 1..Len(calls) |->
       [id |-> base + i, name |-> calls[i].name,
        arguments |-> IF calls[i].valid THEN "{}" ELSE "{"]]

\* create_initial_plan, for what the planning query yields: the memory
\* left, whether it raised, and the plan the store is left with.  The
\* store's create registers a new identifier: for one it already holds it
\* fails and the store keeps its plan.
AgentCreateInitialPlan(mem, r, inStore, planSteps, statuses) ==
    LET mem1 == AddMessage(mem, UserMessage(PLAN_REQUEST))
        kept == [in_store |-> inStore, steps |-> planSteps,
                 statuses |-> statuses]
    IN
    IF r.kind # "response" THEN
        [memory |-> mem1, raised |-> TRUE, store |-> kept]
    ELSE
        LET recorded == Recorded(r.tool_calls, Len(mem))
            mem2 == AddMessage(mem1, FromToolCalls("a", recorded))
            i == FirstPlanning(r.tool_calls, 1)
        IN
        IF i = 0 THEN
            [memory |-> AddMessage(mem2, AssistantMessage(NO_PLAN_CREATED)),
             raised |-> FALSE, store |-> kept]
        ELSE
            LET c == r.tool_calls[i]
                creates == c.valid /\ c.command = "create" /\ ~inStore
                text == IF ~c.valid THEN "error_invalid_json"
                        ELSE IF c.command = "create"
                        THEN Observation(IF inStore THEN "failure"
                                         ELSE "output")
                        ELSE Observation(IF r.raises THEN "failure"
                                         ELSE "output")
            IN  [memory |-> AddMessage(mem2, ToolMessage(text, recorded[i].id,
                                                         "planning")),
                 raised |-> FALSE,
                 store |-> IF creates
                           THEN [in_store |-> TRUE,
                                 steps |-> PlanCreate(c.steps).steps,
                                 statuses |-> PlanCreate(c.steps).statuses]
                           ELSE kept]

\* The fields of a flow, other than the plan the store holds.
flowOnly == <<agents, executor_keys, primary_agent_key, step_type, executor,
              parked, fpc, flow_result, last_run_step, signalled, planned>>

\* The fields of the other agent subclasses and the operands of a
\* combination.
otherKinds == <<working_dir, template, lhs, rhs, combined>>

\* A planning agent as constructed, with what the store holds under its
\* plan identifier and the header the planning tool renders.
PlanAgentInit ==
    /\ \E p \in StoreSetups :
          /\ plan_in_store = p.in_store
          /\ steps = p.steps
          /\ step_statuses = p.statuses
          /\ AgentInit
          /\ odd = ConfigCost(state, tool_choices, special_tool_names)
                   + (IF p.in_store THEN p.cost ELSE 0)
    /\ odd <= MaxOdd
    /\ current_step_index = NoStep
    /\ agents = <<"default">>
    /\ executor_keys = <<"default">>
    /\ primary_agent_key = "default"
    /\ step_type = ""
    /\ executor = "none"
    /\ parked = [k \in FlowKeys |-> AgentFields("IDLE")]
    /\ fpc = "off"
    /\ flow_result = <<>>
    /\ last_run_step = NoStep
    /\ signalled = FALSE
    /\ planned = ""
    /\ NoTools
    /\ step_execution_tracker = <<>>
    /\ plan_header \in PlanHeaders
    /\ working_dir = ""
    /\ template = <<>>
    /\ lhs = <<>>
    /\ rhs = <<>>
    /\ combined = <<>>

\* run of a planning agent: create_initial_plan when a request is given,
\* then BaseAgent.run without the request.
PlanAgentRun(request, r) ==
    /\ pc = "idle"
    /\ request = "" => r = [kind |-> "failure", tool_calls |-> <<>>,
                            raises |-> FALSE]
    /\ LET cost == RequestCost(request) + RunCost(runs)
                   + (IF request # "" THEN PlanResponseCost(r) ELSE 0)
           c == AgentCreateInitialPlan(memory, r, plan_in_store, steps,
                                       step_statuses)
       IN  IF request # "" /\ c.raised THEN
              /\ odd + cost <= MaxOdd
              /\ odd' = odd + cost
              /\ runs' = runs + 1
              /\ memory' = c.memory
              /\ outcome' = "raised"
              /\ raised_by' = "create_initial_plan"
              /\ UNCHANGED <<state, current_step, next_step_prompt,
                             tool_calls, pc, previous_state, results, pending,
                             act_results, steps_run, cleanups, returned,
                             last_query, finished_at, dispatched,
                             last_dispatch>>
              /\ UNCHANGED config
              /\ UNCHANGED <<plan_in_store, steps, step_statuses>>
           ELSE IF request # "" THEN
              /\ RunFrom(c.memory, "", cost)
              /\ plan_in_store' = c.store.in_store
              /\ steps' = c.store.steps
              /\ step_statuses' = c.store.statuses
           ELSE
              /\ RunFrom(memory, "", cost)
              /\ UNCHANGED <<plan_in_store, steps, step_statuses>>
    /\ UNCHANGED <<current_step_index, flowOnly>>
    /\ UNCHANGED <<toolVars, kindVars>>

\* step: think of a planning agent, given what the model query yields.
PlanAgentThink(q) ==
    /\ pc = "think"
    /\ odd + QueryCost(q) <= MaxOdd
    /\ odd' = odd + QueryCost(q)
    /\ LET plan == GetPlan(plan_in_store, plan_header, steps, step_statuses)
           mem0 == Append(memory, UserMessage(PLAN_STATUS_PROMPT))
           r == GetCurrentStepIndex(plan, steps, step_statuses)
           asked == [q EXCEPT !.tool_calls = Renumbered(@, Len(memory))]
           t == Think(asked, mem0, next_step_prompt, state, tool_calls,
                      tool_choices)
       IN  /\ current_step_index' = r.index
           /\ step_statuses' = r.statuses
           /\ step_execution_tracker' =
                 Tracked(step_execution_tracker, t.ret, t.tool_calls,
                         special_tool_names, r.index)
           /\ memory' = t.memory
           /\ state' = t.state
           /\ tool_calls' = t.tool_calls
           /\ last_query' = q.kind
           /\ finished_at' = IF t.state = "FINISHED" /\ state # "FINISHED"
                             THEN steps_run ELSE finished_at
           /\ IF t.ret = "raise" THEN
                 /\ pc' = "raising"
                 /\ raised_by' = "think"
                 /\ UNCHANGED <<next_step_prompt, results>>
              ELSE IF t.ret = "true" THEN
                 /\ pc' = "act"
                 /\ UNCHANGED <<next_step_prompt, results, raised_by>>
              ELSE
                 /\ StepReturns(t.memory, <<NO_ACTION>>)
                 /\ UNCHANGED raised_by
    /\ UNCHANGED <<current_step, previous_state, pending, act_results, runs,
                   steps_run, cleanups, outcome, returned, dispatched,
                   last_dispatch>>
    /\ UNCHANGED config
    /\ UNCHANGED <<plan_in_store, steps, flowOnly>>
    /\ UNCHANGED <<toolVars, plan_header, otherKinds>>

\* act of a planning agent: one iteration of the for loop of
\* ToolCallAgent.act and, once the loop is over, the tracker entry of the
\* first call and the plan step it names.
PlanAgentDispatch(o) ==
    /\ pc = "dispatch"
    /\ LET command == Command(tool_calls, pending)
           e == PlanExecuteTool(command, o, state, special_tool_names)
           over == ~ActLoopContinues(pending, tool_calls, e.state)
           result == Append(act_results, e.text)
       IN  /\ o \in ToolOutcomes(command.name)
           /\ ~e.invoked => o = "output"
           /\ odd + OutcomeCost(o) <= MaxOdd
           /\ odd' = odd + OutcomeCost(o)
           /\ last_dispatch' = PlanDispatchCase(command, o)
           /\ dispatched' = IF e.invoked THEN dispatched + 1 ELSE dispatched
           /\ Dispatched(command, e)
           /\ step_execution_tracker' =
                 IF over THEN Completed(step_execution_tracker, tool_calls,
                                        result)
                 ELSE step_execution_tracker
           /\ step_statuses' =
                 IF over
                 THEN UpdatePlanStatus(step_execution_tracker, tool_calls,
                                       special_tool_names, plan_in_store,
                                       steps, step_statuses)
                 ELSE step_statuses
    /\ UNCHANGED <<current_step, tool_calls, previous_state, runs, steps_run,
                   cleanups, outcome, returned, last_query>>
    /\ UNCHANGED config
    /\ UNCHANGED <<plan_in_store, steps, current_step_index, flowOnly>>
    /\ UNCHANGED <<toolVars, plan_header, otherKinds>>

PlanAgentNext ==
    \/ \E request \in Requests :
         \E r \in PlanResponsesWithin[MaxOdd - odd] : PlanAgentRun(request, r)
    \/ LoopIter
    \/ \E q \in PlanAgentQueriesWithin[MaxOdd - odd] : PlanAgentThink(q)
    \/ DoAct
    \/ \E o \in {"output", "empty", "tool_error", "exception"} :
         PlanAgentDispatch(o)
    \/ LoopExit
    \/ Cleanup
    \/ ContextExcept
    \/ ContextFinally

PlanAgentSpec == PlanAgentInit /\ [][PlanAgentNext]_vars

Last(seq) == seq[Len(seq)]

StepLines(lines) == SelectSeq(lines, LAMBDA l : l.step > 0)

C2_IdleAfterNormalReturn ==
    /\ [](pc = "cleanup" => state = "IDLE")
    /\ []((pc = "idle" /\ outcome = "returned") => state = "IDLE")
    /\ [][(outcome = "returned" /\ runs' = runs + 1) => outcome' = "running"]_vars

C2_Witness ==
    /\ runs = 2
    /\ pc = "idle"
    /\ outcome = "returned"
    /\ finished_at > 0
    /\ state = "IDLE"

\* C3: a failure that leaves a step sets the state to ERROR before it
\* propagates, the state before entry (IDLE) is restored after that and the
\* failure reaches the caller; ERROR is not the state once run is over.
C3_ErrorThenRestored ==
    /\ [](pc = "finally" => state = "ERROR")
    /\ [][pc = "raising" => (pc' = "finally" /\ state' = "ERROR")]_vars
    /\ [][pc = "finally" =>
            (pc' = "idle" /\ outcome' = "raised" /\ state' = "IDLE")]_vars
    /\ []((pc = "idle" /\ outcome \in {"returned", "raised"}) => state # "ERROR")

C3_Witness ==
    /\ pc = "idle"
    /\ outcome = "raised"
    /\ raised_by = "think"
    /\ state = "IDLE"

\* C4: a run in which the state never becomes FINISHED performs exactly
\* max_steps steps, resets the step counter to 0, leaves the agent IDLE and
\* ends its results with the budget-exceeded notice, also when it follows
\* earlier runs of the agent.
C4_ExactlyMaxSteps ==
    (pc = "idle" /\ outcome = "returned" /\ finished_at = 0) =>
        /\ steps_run = max_steps
        /\ current_step = 0
        /\ state = "IDLE"
        /\ Last(returned) = [step |-> 0, text |-> <<MAX_STEPS_REACHED>>]

\* C5: every run that has started ends, after at most max_steps steps.
C5_RunTerminates ==
    /\ [](steps_run <= max_steps)
    /\ (pc # "idle") ~> (pc = "idle")

C5_Witness ==
    /\ pc = "idle"
    /\ outcome = "returned"
    /\ max_steps = MaxSteps
    /\ steps_run = max_steps

\* C6: when a run that passed the IDLE test is over, by return or by a
\* failure, the sandbox cleanup hook has been invoked exactly once.
C6_CleanupOnEveryExit ==
    (pc = "idle" /\ outcome \in {"returned", "raised"}) => cleanups = 1

\* C7: execute_tool does not raise for a command without structure, an
\* unknown tool, a payload that is not JSON or a tool that raises: it
\* returns an error text, and the agent's state stays as it was.
C7_ErrorTexts ==
    {"error_invalid_command", "error_unknown_tool", "error_invalid_json",
     "error_tool_problem", "observed_output_error"}

C7_ExecuteToolFailsClosed ==
    [][(pc = "dispatch"
        /\ last_dispatch' \in {"invalid_command", "unknown_tool",
                               "invalid_json", "tool_error", "exception"}) =>
          /\ pc' # "raising"
          /\ Last(memory').content \in C7_ErrorTexts
          /\ state' = state
      ]_vars

\* C8: once a special tool has been dispatched successfully in the k-th
\* step of a run the state is FINISHED, no further step is executed and the
\* run returns with k step result lines.
C8_SpecialToolEndsRun ==
    /\ [][(pc = "dispatch"
           /\ last_dispatch' \in {"output", "empty"}
           /\ IsSpecialTool(tool_calls[pending].name, special_tool_names)) =>
             (state' = "FINISHED" /\ finished_at' = steps_run)]_vars
    /\ [](finished_at > 0 => steps_run = finished_at)
    /\ []((finished_at > 0 /\ pc \in {"loop", "cleanup"}) => state \in {"FINISHED", "IDLE"})
    /\ []((pc = "idle" /\ outcome = "returned" /\ finished_at > 0) =>
            Len(StepLines(returned)) = finished_at)

C8_Witness ==
    /\ pc = "idle"
    /\ outcome = "returned"
    /\ last_query = "response"
    /\ last_dispatch = "output"
    /\ finished_at = 1
    /\ max_steps = 2
    /\ Len(returned) = 1

\* C9: a wrapped token-limit failure of the query makes think append one
\* assistant message that tells of the limit, set FINISHED and return false;
\* the step yields the no-action text, act is not invoked, the run makes no
\* further query and returns normally with that step's line.
C9_TokenLimitEndsRun ==
    /\ [][(pc = "think" /\ last_query' = "token_limit") =>
            /\ memory' = Append(WithPrompt(memory, next_step_prompt),
                                AssistantMessage(TOKEN_LIMIT_TEXT))
            /\ state' = "FINISHED"
            /\ pc' = "loop"
            /\ results' = Append(results, [step |-> current_step,
                                           text |-> <<NO_ACTION>>])
            /\ dispatched' = dispatched]_vars
    /\ [](last_query = "token_limit" =>
            /\ pc \in {"loop", "cleanup", "idle"}
            /\ outcome \in {"running", "returned"}
            /\ raised_by = "none")
    /\ []((last_query = "token_limit" /\ pc = "idle") =>
            /\ outcome = "returned"
            /\ Last(StepLines(returned)).text = <<NO_ACTION>>)

C9_Witness ==
    /\ pc = "idle"
    /\ outcome = "returned"
    /\ last_query = "token_limit"

\* C10: under policy required a response without tool calls makes think
\* return true and act raise the tool-call-required failure, which leaves
\* step and run as a failure; no tool is dispatched.
C10_RequiredWithoutCalls ==
    /\ [][(pc = "think" /\ tool_choices = "required"
           /\ last_query' = "response" /\ tool_calls' = <<>>) =>
             pc' = "act"]_vars
    /\ [][(pc = "act" /\ tool_choices = "required" /\ tool_calls = <<>>) =>
             (pc' = "raising" /\ raised_by' = "act" /\ dispatched' = dispatched)]_vars
    /\ []((raised_by = "act" /\ pc = "idle") => outcome = "raised")

C10_Witness ==
    /\ pc = "idle"
    /\ outcome = "raised"
    /\ raised_by = "act"
    /\ tool_choices = "required"
    /\ tool_calls = <<>>

\* The index of the latest assistant message of mem (0: there is none).
LatestAssistant(mem) ==
    LET idx == {i \in 1..Len(mem) : mem[i].role = "assistant"}
    IN  IF idx = {} THEN 0 ELSE CHOOSE i \in idx : \A j \in idx : j <= i

\* The stuck verdict as C11 states it.
LatestAssistantRepeated(mem) ==
    /\ Len(mem) >= 2
    /\ LET k == LatestAssistant(mem)
       IN  /\ k > 0
           /\ Cardinality({i \in 1..(k - 1) :
                              /\ mem[i].role = "assistant"
                              /\ mem[i].content = mem[k].content})
                 >= duplicate_threshold

\* C11: after a step, the stuck handling is applied exactly when memory
\* holds at least 2 messages and the content of the latest assistant
\* message equals that of at least duplicate_threshold earlier assistant
\* messages, whatever tool or user messages follow it.
C11_StuckIffAssistantRepeated ==
    [][(pc \in {"think", "act", "dispatch"} /\ pc' = "loop") =>
          ((next_step_prompt' # next_step_prompt)
             <=> LatestAssistantRepeated(memory'))]_vars

\* C12: under policy none the tool calls of a response are ignored: no
\* tool is dispatched and no tool message is appended, with or without
\* text in the response, and think returns true exactly when the response
\* has text (which it appends as one assistant message).
C12_NoneIgnoresToolCalls ==
    /\ [][(pc = "think" /\ tool_choices = "none" /\ last_query' = "response") =>
            /\ pc' \in {"act", "loop"}
            /\ (pc' = "act") <=>
                   (memory' # WithPrompt(memory, next_step_prompt))
            /\ memory' # WithPrompt(memory, next_step_prompt) =>
                   /\ memory' = Append(WithPrompt(memory, next_step_prompt),
                                       AssistantMessage(Last(memory').content))
                   /\ Last(memory').content # ""]_vars
    /\ [](tool_choices = "none" =>
            /\ pc # "dispatch"
            /\ dispatched = 0
            /\ \A i \in 1..Len(memory) : memory[i].role # "tool")

\* C13: under a policy other than none think appends exactly one assistant
\* message for a response, carrying the requested tool calls, and returns
\* true without tool calls under required, (the text is not empty) without
\* tool calls under auto, and (there are tool calls) otherwise.
C13_ThinkRecordsAndDecides ==
    [][(pc = "think" /\ tool_choices # "none" /\ last_query' = "response") =>
          /\ Len(memory') = Len(WithPrompt(memory, next_step_prompt)) + 1
          /\ SubSeq(memory', 1, Len(memory') - 1)
                = WithPrompt(memory, next_step_prompt)
          /\ Last(memory').role = "assistant"
          /\ Last(memory').tool_calls = tool_calls'
          /\ pc' \in {"act", "loop"}
          /\ (pc' = "act") <=>
                 (IF tool_calls' # <<>> THEN TRUE
                  ELSE IF tool_choices = "required" THEN TRUE
                  ELSE Last(memory').content # "")]_vars

C13_Witness ==
    /\ pc = "loop"
    /\ tool_choices = "auto"
    /\ last_query = "response"
    /\ tool_calls = <<>>
    /\ Last(memory) = AssistantMessage("")
    /\ Last(results).text = <<NO_ACTION>>

ToolTail(mem, calls, k) ==
    /\ Len(mem) >= k
    /\ \A i \in 1..k :
          LET m == mem[Len(mem) - k + i]
          IN  /\ m.role = "tool"
              /\ m.tool_call_id = calls[i].id
              /\ m.name = calls[i].name

\* C15: act dispatches its n pending calls one at a time in the order
\* received: call i+1 is dispatched only after the tool message of call i
\* was appended, and once act is over exactly n tool messages were
\* appended in call order, each with its call's identifier and tool name,
\* error texts included.
C15_DispatchInOrder ==
    /\ [][(pc = "act" /\ pc' = "dispatch") =>
            (pending' = 1 /\ memory' = memory)]_vars
    /\ [](pc = "dispatch" =>
            /\ pending \in 1..Len(tool_calls)
            /\ ToolTail(memory, tool_calls, pending - 1)
            /\ Len(memory) >= pending
            /\ memory[Len(memory) - (pending - 1)].role # "tool")
    /\ [][pc = "dispatch" =>
            /\ Len(memory') = Len(memory) + 1
            /\ SubSeq(memory', 1, Len(memory)) = memory
            /\ ToolTail(memory', tool_calls, pending)
            /\ pc' = (IF pending < Len(tool_calls) THEN "dispatch" ELSE "loop")
            /\ pc' = "dispatch" => pending' = pending + 1
            /\ tool_calls' = tool_calls]_vars

C15_Witness ==
    /\ pc = "loop"
    /\ Len(tool_calls) = 2
    /\ ToolTail(memory, tool_calls, 2)
    /\ memory[Len(memory) - 1].content \in C7_ErrorTexts
    /\ Last(memory).content = "observed_output"
    /\ memory[Len(memory) - 2].role = "assistant"

\* The indices (from 0) of the steps whose status is not_started or
\* in_progress.
ActiveSteps(planSteps, statuses) ==
    {i \in 0..(Len(planSteps) - 1) :
       StatusAt(statuses, i) \in {"not_started", "in_progress"}}

\* C16: current-step resolution returns the smallest index whose status is
\* not_started or in_progress, leaves that step in_progress and changes no
\* other step's status; without such a step it returns no current step
\* and changes nothing.
C16_ResolvesFirstActive ==
    [][fpc = "resolve" =>
         LET act == IF plan_in_store THEN ActiveSteps(steps, step_statuses)
                    ELSE {}
         IN  IF act # {} THEN
                /\ current_step_index' \in act
                /\ \A j \in act : current_step_index' <= j
                /\ StatusAt(step_statuses', current_step_index') = "in_progress"
                /\ Len(step_statuses') <= Len(steps)
                /\ \A j \in 0..(Len(steps) - 1) :
                      j # current_step_index' =>
                        StatusAt(step_statuses', j) = StatusAt(step_statuses, j)
                /\ fpc' = "select"
             ELSE
                /\ current_step_index' = NoStep
                /\ step_statuses' = step_statuses
                /\ fpc' = "done"]_vars

C16_Witness ==
    /\ fpc = "select"
    /\ current_step_index = 1
    /\ step_statuses \in {<<"blocked", "in_progress">>,
                           <<"completed", "in_progress">>}
    /\ runs = 0

\* C17: current-step resolution is idempotent: called again on the plan
\* as the first call left it, it returns the same index and leaves the
\* same statuses, the resolved step still in_progress.
C17_ResolutionIdempotent ==
    /\ []((fpc = "select"
            \/ (fpc = "done" /\ flow_result # <<>>
                /\ Last(flow_result).text = <<PLAN_COMPLETED>>)) =>
            LET r == GetCurrentStepInfo(plan_in_store, steps, step_statuses)
            IN  /\ r.index = current_step_index
                /\ r.statuses = step_statuses
                /\ r.index # NoStep =>
                      StatusAt(step_statuses, r.index) = "in_progress")
    /\ [][(fpc = "resolve" /\ current_step_index # NoStep
           /\ StatusAt(step_statuses, current_step_index) = "in_progress") =>
             /\ current_step_index' = current_step_index
             /\ step_statuses' = step_statuses]_vars

C17_Witness ==
    /\ fpc = "select"
    /\ last_run_step = current_step_index
    /\ current_step_index = 0
    /\ step_statuses = <<"in_progress", "not_started">>

\* C18: executor selection returns the agent registered under the step's
\* type when the step has a type and such an agent exists, otherwise the
\* agent of the first executor key, in configured order, that names an
\* agent, otherwise the primary agent.
C18_ExecutorSelection ==
    [][fpc = "select" =>
         LET present == {i \in 1..Len(executor_keys) :
                           executor_keys[i] \in Range(agents)}
         IN  IF step_type # "" /\ step_type \in Range(agents)
             THEN executor' = step_type
             ELSE IF present # {}
             THEN \E i \in present :
                    /\ \A j \in present : i <= j
                    /\ executor' = executor_keys[i]
             ELSE executor' = (IF primary_agent_key \in Range(agents)
                               THEN primary_agent_key ELSE "none")]_vars

C18_Witness ==
    /\ fpc = "execute"
    /\ step_type = "search"
    /\ executor = "search"
    /\ executor_keys = <<"default", "search">>

\* C19: a plan step is marked completed exactly when the executor's run
\* for it returned, also by exhausting its step budget; when the run
\* raises, the step stays in_progress, no other step changes and the
\* step's result is the failure text.
C19_CompletedIffRunReturned ==
    /\ [](fpc = "running" =>
            /\ current_step_index \in 0..(Len(step_statuses) - 1)
            /\ step_statuses[current_step_index + 1] = "in_progress")
    /\ [][(fpc = "running" /\ fpc' # "running") =>
            IF outcome = "returned" THEN
                /\ step_statuses' = [step_statuses EXCEPT
                                       ![current_step_index + 1] = "completed"]
                /\ Last(flow_result') = [step |-> current_step_index,
                                         text |-> returned]
            ELSE
                /\ outcome \in {"raised", "invalid_state"}
                /\ step_statuses' = step_statuses
                /\ Last(flow_result') = [step |-> current_step_index,
                                         text |-> <<STEP_FAILED>>]]_vars

C19_Witness ==
    /\ fpc = "resolve"
    /\ outcome = "raised"
    /\ step_statuses = <<"completed", "in_progress">>
    /\ Len(flow_result) = 2
    /\ Last(flow_result[1].text).text = <<MAX_STEPS_REACHED>>
    /\ Last(flow_result) = [step |-> 1, text |-> <<STEP_FAILED>>]

\* C20: once the executor of a plan step has dispatched a special tool
\* that set FINISHED, the flow runs no executor for a further plan step.
C20_TerminateEndsFlow ==
    [][signalled => runs' = runs]_vars

\* C21: a plan step whose executor run failed (it raised, or the call was
\* rejected) is not resolved and executed again: each pass of the flow's
\* loop leaves fewer steps to run, which is what lets execute return for
\* every finite plan.
C21_FailedStepNotRerun ==
    [][(fpc = "execute" /\ fpc' = "running") =>
          ~(/\ current_step_index = last_run_step
            /\ outcome \in {"raised", "invalid_state"})]_vars

\* a is an initial part of b.
IsPrefix(a, b) == Len(a) <= Len(b) /\ SubSeq(b, 1, Len(a)) = a

\* C24: an agent's memory is append-only across run, think, act, the
\* stuck handling and the recording of a token limit or an error: the
\* messages before an operation are a prefix of those after it.
C24_MemoryAppendOnly ==
    [][IsPrefix(memory, memory')]_vars

C24_Witness ==
    /\ pc = "idle"
    /\ outcome = "returned"
    /\ Len(memory) >= 6
    /\ memory[1].role = "user"
    /\ \E i \in 1..Len(memory) : memory[i].role = "tool"
    /\ Last(memory) = AssistantMessage(TOKEN_LIMIT_TEXT)

\* C27: the budget-exceeded notice is appended, the step counter reset and
\* the state forced to IDLE only when the loop ends with the state not
\* FINISHED; a run in which FINISHED was set, on any step up to max_steps,
\* returns without the notice.
C27_NoticeOnlyOnExhaustion ==
    /\ [][(pc = "loop" /\ pc' = "cleanup") =>
            IF state = "FINISHED"
            THEN results' = results /\ current_step' = current_step
            ELSE /\ results' = Append(results, [step |-> 0,
                                                text |-> <<MAX_STEPS_REACHED>>])
                 /\ current_step' = 0
                 /\ state' = "IDLE"]_vars
    /\ []((pc = "idle" /\ outcome = "returned" /\ finished_at > 0) =>
            \A i \in 1..Len(returned) : returned[i].text # <<MAX_STEPS_REACHED>>)

\* C28: run returns its step result lines when at least one step ran, and
\* the "no steps executed" sentinel when the run executed no step.
C28_SentinelWhenNoStepRan ==
    (pc = "idle" /\ outcome = "returned") =>
        IF steps_run > 0
        THEN /\ returned = results
             /\ Len(StepLines(returned)) = steps_run
        ELSE returned = <<[step |-> 0, text |-> <<NO_STEPS>>]>>

\* C29: a special tool sets FINISHED only when its invocation succeeded:
\* when the tool raises a tool error or another exception, or its payload
\* is rejected, the state stays as it was and the run goes on.
C29_FinishedOnlyOnSuccess ==
    [][(pc = "dispatch"
        /\ IsSpecialTool(tool_calls[pending].name, special_tool_names)
        /\ last_dispatch' \in {"tool_error", "exception", "invalid_json"}) =>
          /\ state' = state
          /\ finished_at' = finished_at]_vars

\* The type a step text carries in a bracketed token at its start.
TagAtStart(text) == IF text = "[SEARCH] do" THEN "search" ELSE ""

\* C30: a step's type is taken only from a bracketed upper-case token at
\* the start of its text; a step with such a token further on has no type
\* and its executor is the one the executor keys (or the primary key)
\* give.
C30_TypeOnlyFromLeadingTag ==
    /\ [][(fpc = "resolve" /\ current_step_index' # NoStep) =>
            step_type' = TagAtStart(steps[current_step_index' + 1])]_vars
    /\ [][(fpc = "select"
           /\ TagAtStart(steps[current_step_index + 1]) = "") =>
            executor' = GetExecutor("", agents, executor_keys,
                                    primary_agent_key)]_vars

\* C22: after the initial plan creation for a non-empty request the store
\* holds a plan under the flow's plan identifier: when the response to the
\* planning query does not create one (no tool call, a call of another
\* tool, a payload that does not decode, a planning call that is not a
\* create) the default plan of three steps, all not_started, is registered.
C22_DefaultPlanUnlessCreated ==
    /\ [][(fpc = "planning" /\ planned' # "query_failed") =>
            (plan_in_store' /\ fpc' = "resolve")]_vars
    /\ [][(fpc = "planning"
           /\ planned' \in {"no_planning_call", "not_create"}) =>
            /\ steps' = DEFAULT_STEPS
            /\ step_statuses' = <<"not_started", "not_started", "not_started">>
         ]_vars

\* The steps (indices from 0) whose status is in_progress.
InProgress(statuses) ==
    {i \in 0..(Len(statuses) - 1) : statuses[i + 1] = "in_progress"}

\* C23: in a flow that executes a plan it has just created, at most one
\* step is in_progress at any time, and from the resolution of a step to
\* the end of its executor's run that step is the one in_progress.
C23_OneInProgress ==
    planned \in {"create", "no_planning_call"} =>
        /\ Cardinality(InProgress(step_statuses)) <= 1
        /\ fpc \in {"select", "execute", "running"} =>
              InProgress(step_statuses) = {current_step_index}

C23_Witness ==
    /\ planned = "no_planning_call"
    /\ fpc = "running"
    /\ pc = "dispatch"
    /\ current_step_index = 2
    /\ step_statuses = <<"completed", "completed", "in_progress">>

\* C25: of the agents that share one browser tool at most one is inside
\* execute's or cleanup's critical section at any time, and it holds the
\* tool's lock from the initialisation to the end of its action or of the
\* cleanup; the context is not closed while an action is in progress, and
\* the browser is created at most once between two cleanups.
C25_BrowserLockExcludes ==
    /\ [](Cardinality({p \in Agents : InCritical(p)}) <= 1)
    /\ [](\A p \in Agents : InCritical(p) => lock = p)
    /\ [][(context /\ ~context') =>
            \A p \in Agents : bpc[p] \notin {"new_context", "action"}]_vars
    /\ [](browser_inits <= 1)

C25_Witness ==
    /\ lock = 2
    /\ bpc[2] = "close_context"
    /\ bpc[1] = "wait_execute"
    /\ bpc[3] = "wait_cleanup"
    /\ browser_inits = 1

\* C26: the commands the agents run on the one session of a bash tool are
\* serialized: from the writing of a command to the collection of its
\* output no other call writes a command or reads and clears the buffers,
\* so that every call collects the output of its own command.
C26_ShellCallsSerialized ==
    /\ Cardinality({p \in Agents : spc[p] = "poll"}) <= 1
    /\ \A p \in Agents :
          got[p].kind = "output" => got[p].output = <<OutputOf(p)>>

\* C31: whenever the flow emits its finalization message the plan is
\* complete: the store holds a plan under the active identifier and every
\* step of it has the status completed.
C31_FinalizedOnlyWhenComplete ==
    (flow_result # <<>> /\ Last(flow_result).text = <<PLAN_COMPLETED>>) =>
        /\ plan_in_store
        /\ \A i \in 0..(Len(steps) - 1) :
              StatusAt(step_statuses, i) = "completed"

\* C40: when calls of execute overlap on a bash tool that has no session
\* yet, no call runs its command on a session whose start is not over: no
\* call fails with the error of a session that was not started.
C40_NoRunBeforeStart ==
    \A p \in Agents : got[p].kind # "not_started"

\* C37: FINISHED does not interrupt the act phase in progress: when a
\* special tool among several pending calls has set FINISHED, every later
\* pending call is still dispatched, in order, and gets its tool message;
\* FINISHED only keeps the next step from starting.
C37_FinishedDoesNotInterruptAct ==
    /\ [][(pc = "dispatch" /\ state' = "FINISHED"
           /\ pending < Len(tool_calls)) =>
             (pc' = "dispatch" /\ pending' = pending + 1)]_vars
    /\ [][(pc = "dispatch" /\ state = "FINISHED") =>
             /\ Len(memory') = Len(memory) + 1
             /\ Last(memory').role = "tool"
             /\ Last(memory').tool_call_id = tool_calls[pending].id
             /\ Last(memory').name = tool_calls[pending].name]_vars
    /\ [][(pc = "loop" /\ state = "FINISHED") => pc' # "think"]_vars

C37_Witness ==
    /\ pc = "loop"
    /\ state = "FINISHED"
    /\ Len(tool_calls) = 2
    /\ tool_calls[1].name = "terminate"
    /\ tool_calls[2].name = "bash"
    /\ ToolTail(memory, tool_calls, 2)
    /\ dispatched = 2

\* C39: execute never raises to its caller: once it is over a value was
\* returned; without a primary agent, and when the creation of the initial
\* plan failed, that value is the failure text; a failure of the
\* executor's run inside the loop becomes the failure text of its step.
C39_ExecuteNeverRaises ==
    /\ [](fpc = "done" => flow_result # <<>>)
    /\ []((fpc = "done" /\ PrimaryAgent(primary_agent_key, agents) = "none") =>
            (flow_result # <<>> /\ Last(flow_result).text = <<FLOW_FAILED>>))
    /\ [][(fpc = "planning" /\ fpc' = "done") =>
            /\ flow_result' # <<>>
            /\ Last(flow_result').text \in {<<FLOW_FAILED>>, <<CREATE_FAILED>>}
            /\ ~plan_in_store']_vars
    /\ [][(fpc = "running" /\ fpc' # fpc
           /\ outcome \in {"raised", "invalid_state"}) =>
            /\ flow_result' # <<>>
            /\ Last(flow_result').text = <<STEP_FAILED>>]_vars

C39_Witness ==
    /\ fpc = "done"
    /\ planned = "query_failed"
    /\ Len(flow_result) = 1
    /\ flow_result[1].text = <<FLOW_FAILED>>

\* What the claim of C35 gives for one field of a + b that can be
\* concatenated.
C35_Concatenated(x, y, z) ==
    IF Truthy(x) /\ Truthy(y) THEN z = Text(x.text \o y.text)
    ELSE IF Truthy(x) THEN z = x
    ELSE IF Truthy(y) THEN z = y
    ELSE ~Truthy(z)

\* C35: a + b has, for output, error and system, the concatenation a then b
\* when both are non-empty and otherwise whichever is non-empty; it fails
\* exactly when both carry a non-empty image, and otherwise carries the
\* image that is set; it is truthy exactly when a or b is truthy.
C35_CombineResults ==
    combined.done =>
        /\ combined.raised <=>
              (Truthy(lhs.base64_image) /\ Truthy(rhs.base64_image))
        /\ ~combined.raised =>
              /\ \A f \in {"output", "error", "system"} :
                    C35_Concatenated(lhs[f], rhs[f], combined.value[f])
              /\ Truthy(lhs.base64_image) =>
                    combined.value.base64_image = lhs.base64_image
              /\ Truthy(rhs.base64_image) =>
                    combined.value.base64_image = rhs.base64_image
              /\ ~(Truthy(lhs.base64_image) \/ Truthy(rhs.base64_image)) =>
                    ~Truthy(combined.value.base64_image)
              /\ ResultBool(combined.value) <=>
                    (ResultBool(lhs) \/ ResultBool(rhs))

C35_Witness ==
    /\ combined.done
    /\ ~combined.raised
    /\ lhs.output = Text(<<"x">>)
    /\ rhs.output = Text(<<"y">>)
    /\ combined.value.output = Text(<<"x", "y">>)
    /\ lhs.error = None
    /\ rhs.error = Text(<<"x">>)
    /\ combined.value.error = Text(<<"x">>)
    /\ rhs.base64_image = Text(<<"x">>)
    /\ combined.value.base64_image = Text(<<"x">>)

\* C38: the prompt update of the SWE agent's think is repeatable: on
\* every step of a run it succeeds, so that the step reaches the model
\* query, and from the second application on it leaves next_step_prompt as
\* the first application left it.
C38_PromptUpdateRepeatable ==
    /\ [](template = NEXT_STEP_TEMPLATE => pc # "raising")
    /\ [][(template = NEXT_STEP_TEMPLATE /\ current_step >= 1
           /\ current_step' = current_step + 1 /\ pc' = "query") =>
             next_step_prompt' = next_step_prompt]_vars

\* C34: in the Manus agent the dispatch of a special tool releases the
\* browser before the state is set to FINISHED: the state becomes FINISHED
\* only once the cleanup is over with neither context nor browser left and
\* the lock free; when the cleanup failed the state stays as it was and the
\* dispatch yields the error text.
C34_CleanupBeforeFinished ==
    /\ [][(pc \in {"dispatch", "special_cleanup"}
           /\ state # "FINISHED" /\ state' = "FINISHED") =>
             /\ pc = "special_cleanup"
             /\ bpc[1] = "idle"
             /\ lock = 0
             /\ ~browser /\ ~context]_vars
    /\ [][(pc = "special_cleanup" /\ pc' # "special_cleanup"
           /\ (browser \/ context)) =>
             /\ state' = state
             /\ Last(memory').role = "tool"
             /\ Last(memory').content = "error_tool_problem"]_vars

C34_Witness ==
    /\ pc = "special_cleanup"
    /\ bpc[1] = "close_browser"
    /\ lock = 1
    /\ ~context
    /\ state = "RUNNING"
    /\ tool_calls[pending].name = "terminate"

\* C36: a call of run that is rejected for the agent's state has no side
\* effect, also on a planning agent called with a request: the memory (to
\* which every model query and every tool dispatch adds a message), the
\* step counter, the state and the plan the store holds are as before.
C36_RejectedRunHasNoEffect ==
    [][(runs' = runs + 1 /\ outcome' = "invalid_state") =>
          /\ memory' = memory
          /\ current_step' = current_step
          /\ state' = state
          /\ plan_in_store' = plan_in_store
          /\ steps' = steps
          /\ step_statuses' = step_statuses]_vars

\* The step lines of a plan text in the rendering format: those after the
\* title line, the blank line and the header.
RenderedStepLines(plan) == SubSeq(plan.lines, 4, Len(plan.lines))

\* C32: on plan text in the plan rendering format, the planning agent's
\* current-step resolution (made by think) returns the index of the first
\* step whose line carries the glyph of not_started or of in_progress, and
\* that step is then in_progress; it returns no step only when no step
\* line carries such a glyph.
C32_ResolvesFromRenderedPlan ==
    [][(pc = "think" /\ pc' # pc /\ plan_in_store
        /\ plan_header = STEPS_HEADER) =>
          LET plan == GetPlan(plan_in_store, plan_header, steps,
                              step_statuses)
              i == FirstActiveLine(RenderedStepLines(plan), 0)
          IN  /\ current_step_index' = i
              /\ i # NoStep => StatusAt(step_statuses', i) = "in_progress"]_vars

\* A call that is neither of the planning tool nor of a special tool.
C33_Tracks(c) == c.name # "planning" /\ c.name \notin special_tool_names

====
